---------------------------- MODULE Spec2Model ----------------------------
(***************************************************************************)
(* Model of scunch: the ant-like pattern matcher and directory walk of     *)
(* antglob.py and the puncher (ScmPuncher) of scunch.py.                   *)
(*                                                                         *)
(* Text is modelled character by character: a string is a sequence of      *)
(* one-character strings, so "ab" is <<"a", "b">> and the empty string is  *)
(* <<>>.  A path is the sequence of its parts as _splitTextParts() yields  *)
(* them; a folder path as find() yields it ("some/") therefore ends in an  *)
(* empty part.                                                             *)
(***************************************************************************)
EXTENDS Integers, Sequences, FiniteSets, TLC

VARIABLES
    pc,               \* the step the program is at
    patternItems,     \* AntPattern.patternItems of the pattern under test
    textItems,        \* the parts matched against a pattern or pattern set
    matchResult,      \* result of AntPattern.matchesParts once pc = "matched"
    includePatterns,  \* AntPatternSet.includePatterns
    excludePatterns,  \* AntPatternSet.excludePatterns
    setResult,        \* result of AntPatternSet.matchesParts once pc = "matchedSet"
    scanTree,         \* the folder tree that find() scans
    listOrder,        \* the order in which os.listdir() lists names
    addFolders,       \* parameter addFolders of find()
    found,            \* the paths find() has yielded, in the order of the yields
    workTree,         \* the folder tree of the work copy
    externalTree,     \* the folder tree of the external folder to punch
    options,          \* the arguments of scunch()
    puncher,          \* the fields of the ScmPuncher
    error,            \* the error that ended the punch, or "none"
    calls,            \* the calls of the SCM that scmWork has made so far
    punches,          \* the number of punches begun
    workTreeBefore,   \* the work copy as it was when the last punch began
    existingToTransformedPathMap,
                      \* ScmNameTransformationError.existingToTransformedPathMap
                      \* of the error, as a set of pairs
    sourceFile,       \* the file of the external folder that is transferred
    targetFile,       \* the file of the work copy that it is transferred to
    textOptions,      \* the text options that the transfer is called with
    entryToTransferParts,
                      \* the parts of the entry that is transferred
    linesRead,        \* the number of lines read from the source file
    baseCommandAndOptions,
                      \* the command and its options that the paths are for
    pathsToBundle,    \* the paths that bundledPathsToRun() is called with
    maxCommandLenth,  \* the maximum length of a command
    bundling,         \* the generator: the bundle it builds, its length, the
                      \* bundles it has yielded, whether it has raised
    pathIndex,        \* the number of paths that the generator has looked at
    statusItems,      \* the status of the entries that svn status reports
    actionsToPerformBeforePunching,
    actionsToPerformAfterPunching,
                      \* the actions of the options --before and --after
    actionIndex,      \* the number of actions performed of the current list
    performed,        \* what main() has called so far
    exitCodeOfMain,   \* the exit code of main()
    exitError         \* the error that main() returns, or "none"

matchVars == <<patternItems, textItems, matchResult>>
setVars == <<includePatterns, excludePatterns, setResult>>
findVars == <<scanTree, listOrder, addFolders, found>>
punchVars == <<workTree, externalTree, options, puncher, error, calls, punches,
               workTreeBefore, existingToTransformedPathMap>>
textVars == <<sourceFile, targetFile, textOptions, entryToTransferParts, linesRead>>
bundleVars == <<baseCommandAndOptions, pathsToBundle, maxCommandLenth, bundling, pathIndex>>
mainVars == <<statusItems, actionsToPerformBeforePunching, actionsToPerformAfterPunching,
              actionIndex, performed, exitCodeOfMain, exitError>>
toolVars == <<textVars, bundleVars, mainVars>>
vars == <<pc, matchVars, setVars, findVars, punchVars, toolVars>>

---------------------------------------------------------------------------
(* Bounds of the model.                                                    *)

MaxPatternLen == 3
MaxTextLen == 3
MaxSetLen == 2
MaxSetTextLen == 2
MaxEntries == 4
MaxDepth == 4
MaxWorkEntries == 3
MaxExternalEntries == 2
MaxPunchDepth == 2
MaxOptions == 2
MaxPunches == 2
MaxContentLen == 4
TabSize == 2
MaxPathLen == 2
MaxPaths == 3
MinCommandLength == 7
MaxStatusItems == 2
MaxCommandLength == 16

---------------------------------------------------------------------------
(* Strings and Python's slices.                                            *)

Str1(c) == <<c>>
Str2(c, d) == <<c, d>>
EmptyStr == <<>>
None == -1

\* s[-n:] for n >= 1: the last n items, or all of s when it is shorter.
SliceLast(s, n) ==
    IF Len(s) <= n THEN s ELSE SubSeq(s, Len(s) - n + 1, Len(s))

\* s[n:] for n >= 0.
SliceFrom(s, n) ==
    IF n >= Len(s) THEN <<>> ELSE SubSeq(s, n + 1, Len(s))

SeqsUpTo(S, n) == UNION {[1..k -> S] : k \in 0..n}

---------------------------------------------------------------------------
(* antglob.py: AntPatternItem.                                             *)

AntAllMagic == Str2("*", "*")
AntMagicChars == {"*", "?", "["}

All == "all"
Many == "many"
One == "one"

ItemKind(text) ==
    IF text = AntAllMagic THEN All
    ELSE IF \E i \in 1..Len(text) : text[i] \in AntMagicChars THEN Many
    ELSE One

\* fnmatch.fnmatch(name, pat) on a case sensitive file system, for patterns
\* made of literal characters, "*" and "?".
RECURSIVE Fnmatch(_, _)
Fnmatch(name, pat) ==
    IF pat = <<>> THEN name = <<>>
    ELSE IF Head(pat) = "*"
        THEN \E k \in 0..Len(name) : Fnmatch(SliceFrom(name, k), Tail(pat))
    ELSE IF Head(pat) = "?"
        THEN name # <<>> /\ Fnmatch(Tail(name), Tail(pat))
    ELSE name # <<>> /\ Head(name) = Head(pat) /\ Fnmatch(Tail(name), Tail(pat))

ItemMatches(item, text) ==
    IF ItemKind(item) = All THEN TRUE ELSE Fnmatch(text, item)

---------------------------------------------------------------------------
(* antglob.py: matching the parts of a path against the items of a pattern *)

\* _findItemInList(_AntAllMagic, haystack): index of the first "**".
FindItemInList(needle, haystack) ==
    IF \E i \in 1..Len(haystack) : haystack[i] = needle
    THEN (CHOOSE i \in 1..Len(haystack) :
            /\ haystack[i] = needle
            /\ \A j \in 1..(i - 1) : haystack[j] # needle) - 1
    ELSE None

NeverMatchesEmptyText(patternItems_) == FALSE

\* "We have a pattern but no text."
PatternMatchesEmptyText(patternItems_) ==
    IF Len(patternItems_) = 1
    THEN CASE ItemKind(patternItems_[1]) = One -> patternItems_[1] = EmptyStr
           [] ItemKind(patternItems_[1]) = Many -> patternItems_[1] = Str1("*")
           [] OTHER -> TRUE
    ELSE FALSE

RECURSIVE TextItemsMatchPatternItems(_, _)
RECURSIVE IndexFrom(_, _, _)

\* The loop of _indexInTextItemsWherePatternPartsMatch() from indexToCheck on.
IndexFrom(textParts, patternParts, indexToCheck) ==
    IF indexToCheck + Len(patternParts) <= Len(textParts)
    THEN IF TextItemsMatchPatternItems(
                SubSeq(textParts, indexToCheck + 1, indexToCheck + Len(patternParts)),
                patternParts)
         THEN indexToCheck
         ELSE IndexFrom(textParts, patternParts, indexToCheck + 1)
    ELSE None

IndexInTextItemsWherePatternPartsMatch(textParts, patternParts) ==
    IndexFrom(textParts, patternParts, 0)

TextItemsAreAtEndOfPatternItems(textItems_, patternItems_) ==
    TextItemsMatchPatternItems(textItems_, SliceLast(patternItems_, Len(textItems_)))

\* The last "**" of the pattern: the tail of the text against what follows it.
MatchAfterLastAllMagic(textItems_, patternItems_) ==
    LET patternItemsAfterAllMagic == Tail(patternItems_)
        tailOfTextItems == SliceLast(textItems_, Len(patternItemsAfterAllMagic))
    IN TextItemsAreAtEndOfPatternItems(tailOfTextItems, patternItemsAfterAllMagic)

\* "**" with more "**" to come; next is the index of that next "**".
MatchBetweenAllMagic(textItems_, patternItems_, next) ==
    LET patternItemsBetweenAllMagic == SubSeq(patternItems_, 2, next)
        index == IndexInTextItemsWherePatternPartsMatch(textItems_, patternItemsBetweenAllMagic)
    IN IF index >= 0
       THEN TextItemsMatchPatternItems(
                SliceFrom(textItems_, index + Len(patternItemsBetweenAllMagic)),
                SliceFrom(patternItems_, next))
       ELSE FALSE

TextItemsMatchPatternItems(textItems_, patternItems_) ==
    IF Len(patternItems_) > 0
    THEN IF Len(textItems_) > 0
         THEN IF ItemKind(patternItems_[1]) = All
              THEN IF Len(patternItems_) = 1
                   THEN TRUE
                   ELSE LET indexOfNextAllMagic ==
                                FindItemInList(AntAllMagic, Tail(patternItems_))
                        IN IF indexOfNextAllMagic = None
                           THEN MatchAfterLastAllMagic(textItems_, patternItems_)
                           ELSE MatchBetweenAllMagic(textItems_, patternItems_,
                                                     indexOfNextAllMagic + 1)
              ELSE IF ItemMatches(patternItems_[1], textItems_[1])
                   THEN TextItemsMatchPatternItems(Tail(textItems_), Tail(patternItems_))
                   ELSE FALSE
         ELSE PatternMatchesEmptyText(patternItems_)
    ELSE Len(textItems_) = 0

\* AntPattern.matchesParts()
AntPatternMatchesParts(pattern, parts) == TextItemsMatchPatternItems(parts, pattern)

---------------------------------------------------------------------------
(* antglob.py: AntPatternSet.                                              *)

RECURSIVE MatchesAnyFrom(_, _, _)
MatchesAnyFrom(parts, patterns, patternIndex) ==
    IF patternIndex < Len(patterns)
    THEN IF AntPatternMatchesParts(patterns[patternIndex + 1], parts)
         THEN TRUE
         ELSE MatchesAnyFrom(parts, patterns, patternIndex + 1)
    ELSE FALSE

MatchesAnyPatternIn(parts, patterns) == MatchesAnyFrom(parts, patterns, 0)

SetMatchesPartsIgnoringExcludes(includes, excludes, parts) ==
    IF Len(includes) > 0 THEN MatchesAnyPatternIn(parts, includes) ELSE TRUE

\* AntPatternSet.matchesParts()
SetMatchesParts(includes, excludes, parts) ==
    LET result == IF Len(includes) > 0
                  THEN MatchesAnyPatternIn(parts, includes)
                  ELSE TRUE
    IN IF result /\ Len(excludes) > 0 /\ MatchesAnyPatternIn(parts, excludes)
       THEN FALSE
       ELSE result

---------------------------------------------------------------------------
(* The file system: a tree is the set of its folders and the set of its    *)
(* files, each a path of names below the root, and the set of the paths of *)
(* the files that were written since a punch began.                        *)

EmptyTree == [folders |-> {}, files |-> {}, written |-> {}]

Paths(tree) == tree.folders \cup tree.files

\* os.path.isdir()
IsDir(tree, path) == path \in tree.folders

\* os.path.dirname() of a path given by its parts.
Dirname(parts) == IF parts = <<>> THEN <<>> ELSE SubSeq(parts, 1, Len(parts) - 1)

\* os.listdir(): the names in a folder, in the order the system lists them.
RECURSIVE ListFrom(_, _, _, _)
ListFrom(tree, folderParts, order, i) ==
    IF i > Len(order) THEN <<>>
    ELSE IF Append(folderParts, order[i]) \in Paths(tree)
        THEN <<order[i]>> \o ListFrom(tree, folderParts, order, i + 1)
    ELSE ListFrom(tree, folderParts, order, i + 1)

Listdir(tree, folderParts, order) == ListFrom(tree, folderParts, order, 1)

---------------------------------------------------------------------------
(* antglob.py: AntPatternSet.find().  A yielded path is the sequence of    *)
(* its parts; a folder path ("some/") has an empty last part.              *)

\* isFolderPath()
IsFolderPath(path) == path # <<>> /\ path[Len(path)] = EmptyStr

\* _asFolderPath()
AsFolderPath(parts) == Append(parts, EmptyStr)

\* The names of a yielded path, without the mark of a folder path.
NamesOf(path) == IF IsFolderPath(path) THEN Dirname(path) ELSE path

\* _parentOfFolderPath()
ParentOfFolderPath(folderPath) == Dirname(Dirname(folderPath))

RECURSIVE FindFilesAndEmptyFolders(_, _, _, _, _, _)
RECURSIVE ExamineFrom(_, _, _, _, _, _, _)

\* The paths that examining one name yields when the walk descends into
\* every folder, excluded or not.
ExamineNameOfAnyFolder(tree, order, includes, excludes, pathToExamineParts, addFolders_) ==
    IF IsDir(tree, pathToExamineParts)
    THEN FindFilesAndEmptyFolders(tree, order, includes, excludes,
                                  pathToExamineParts, addFolders_)
    ELSE IF Len(excludes) > 0 /\ MatchesAnyPatternIn(pathToExamineParts, excludes)
        THEN <<>>
    ELSE IF Len(includes) > 0 /\ ~MatchesAnyPatternIn(pathToExamineParts, includes)
        THEN <<>>
    ELSE <<pathToExamineParts>>

\* The paths that examining one name of a folder yields.
ExamineName(tree, order, includes, excludes, pathToExamineParts, addFolders_) ==
    LET isExcluded == IF Len(excludes) > 0
                      THEN MatchesAnyPatternIn(pathToExamineParts, excludes)
                      ELSE FALSE
    IN IF isExcluded THEN <<>>
       ELSE IF IsDir(tree, pathToExamineParts)
           THEN FindFilesAndEmptyFolders(tree, order, includes, excludes,
                                         pathToExamineParts, addFolders_)
       ELSE IF Len(includes) > 0
           THEN IF MatchesAnyPatternIn(pathToExamineParts, includes)
                THEN <<pathToExamineParts>>
                ELSE <<>>
       ELSE <<pathToExamineParts>>

\* The for loop of _findFilesAndEmptyFolders() from the i-th listed name on:
\* what it yields, and whether a sub folder yielded anything.
ExamineFrom(tree, order, includes, excludes, folderParts, addFolders_, names) ==
    IF names = <<>>
    THEN [yielded |-> <<>>, foundMatchingFilesOrSubFolders |-> FALSE]
    ELSE LET pathToExamineParts == Append(folderParts, Head(names))
             first == ExamineName(tree, order, includes, excludes,
                                  pathToExamineParts, addFolders_)
             rest == ExamineFrom(tree, order, includes, excludes, folderParts,
                                 addFolders_, Tail(names))
             isExcluded == Len(excludes) > 0
                               /\ MatchesAnyPatternIn(pathToExamineParts, excludes)
         IN [yielded |-> first \o rest.yielded,
             foundMatchingFilesOrSubFolders |->
                 \/ (~isExcluded /\ IsDir(tree, pathToExamineParts) /\ first # <<>>)
                 \/ rest.foundMatchingFilesOrSubFolders]

FindFilesAndEmptyFolders(tree, order, includes, excludes, folderParts, addFolders_) ==
    LET scan == ExamineFrom(tree, order, includes, excludes, folderParts,
                            addFolders_, Listdir(tree, folderParts, order))
    IN IF /\ addFolders_
          /\ ~scan.foundMatchingFilesOrSubFolders
          /\ SetMatchesParts(includes, excludes, folderParts)
          /\ folderParts # <<>>
       THEN Append(scan.yielded, AsFolderPath(folderParts))
       ELSE scan.yielded

\* Only the folder that holds the path, not the folders above it.
ParentFolderPathsBottomUp(containingFolderPath, folderPathsYield) ==
    IF containingFolderPath \notin folderPathsYield /\ Len(containingFolderPath) > 0
    THEN <<containingFolderPath>>
    ELSE <<>>

\* The containing folders of a path that have not been yielded yet, top down:
\* the while loop of _findInFolder().
RECURSIVE ParentFolderPathsToYield(_, _)
ParentFolderPathsToYield(containingFolderPath, folderPathsYield) ==
    IF containingFolderPath \notin folderPathsYield /\ Len(containingFolderPath) > 0
    THEN Append(ParentFolderPathsToYield(Dirname(containingFolderPath), folderPathsYield),
                containingFolderPath)
    ELSE <<>>

SeqRange(s) == {s[i] : i \in 1..Len(s)}

RECURSIVE MapAsFolderPath(_)
MapAsFolderPath(paths) ==
    IF paths = <<>> THEN <<>>
    ELSE <<AsFolderPath(Head(paths))>> \o MapAsFolderPath(Tail(paths))

\* The for loop of _findInFolder() over the paths the inner generator yields.
RECURSIVE FindInFolderFrom(_, _, _)
FindInFolderFrom(paths, addFolders_, folderPathsYield) ==
    IF paths = <<>> THEN <<>>
    ELSE LET pathToExamine == Head(paths)
             containingFolderPath ==
                 IF IsFolderPath(pathToExamine)
                 THEN ParentOfFolderPath(pathToExamine)
                 ELSE Dirname(pathToExamine)
             parents ==
                 IF addFolders_ /\ containingFolderPath # <<>>
                 THEN ParentFolderPathsToYield(containingFolderPath, folderPathsYield)
                 ELSE <<>>
         IN MapAsFolderPath(parents) \o <<pathToExamine>>
                \o FindInFolderFrom(Tail(paths), addFolders_,
                                    folderPathsYield \cup SeqRange(parents))

\* AntPatternSet._findInFolder(), and so find() and ifind()
FindInFolder(tree, order, includes, excludes, addFolders_) ==
    FindInFolderFrom(
        FindFilesAndEmptyFolders(tree, order, includes, excludes, <<>>, addFolders_),
        addFolders_, {})

---------------------------------------------------------------------------
(* antglob.py: FileSystemEntry.  An entry is its parts and its kind; Python *)
(* compares and hashes entries by their parts alone.                       *)

File == "file"
Folder == "folder"
NoEntry == [parts |-> <<>>, kind |-> "none"]

\* ord() of the characters of the names.
CharCode(c) ==
    CASE c = "A" -> 65
      [] c = "B" -> 66
      [] c = "a" -> 97
      [] c = "b" -> 98
      [] OTHER -> 0

CharLess(c, e) == CharCode(c) < CharCode(e)

Min(m, n) == IF m < n THEN m ELSE n

\* cmp() of two sequences is less than 0, Lt ordering their items.
LexLess(s, t, Lt(_, _)) ==
    \E k \in 0..Min(Len(s), Len(t)) :
        /\ \A i \in 1..k : s[i] = t[i]
        /\ \/ (k = Len(s) /\ k < Len(t))
           \/ (k < Len(s) /\ k < Len(t) /\ Lt(s[k + 1], t[k + 1]))

StrLess(s, t) == LexLess(s, t, CharLess)

PartsLess(p, q) == LexLess(p, q, StrLess)

\* FileSystemEntry.__cmp__ is less than 0
EntryCmpLess(some, other) == PartsLess(some.parts, other.parts)

\* FileSystemEntry.__init__: the kind is what os.stat() says of the path.
FileSystemEntry(tree, parts) ==
    [parts |-> parts,
     kind |-> IF IsDir(tree, NamesOf(parts)) THEN Folder ELSE File]

\* AntPatternSet.findEntries(): one entry for each path that find() yields.
RECURSIVE EntriesOf(_, _)
EntriesOf(tree, paths) ==
    IF paths = <<>> THEN <<>>
    ELSE <<FileSystemEntry(tree, Head(paths))>> \o EntriesOf(tree, Tail(paths))

FindEntries(tree, order, includes, excludes) ==
    EntriesOf(tree, FindInFolder(tree, order, includes, excludes, TRUE))

---------------------------------------------------------------------------
(* scunch.py: sorting of entries, name transformations.                    *)

\* comparedFileSystemEntries(some, other) < 0: folders before files.
ComparedLess(some, other) ==
    \/ (some.kind = Folder /\ other.kind = File)
    \/ (some.kind = other.kind /\ PartsLess(some.parts, other.parts))

\* sorted(): the entries of a set, in the order of comparedFileSystemEntries
\* or (sorted() without cmp) in the order of FileSystemEntry.__cmp__.
RECURSIVE SortedEntries(_, _)
SortedEntries(entries, foldersFirst) ==
    IF entries = {} THEN <<>>
    ELSE LET first == CHOOSE e \in entries : \A f \in entries \ {e} :
                          IF foldersFirst THEN ComparedLess(e, f)
                          ELSE EntryCmpLess(e, f)
         IN <<first>> \o SortedEntries(entries \ {first}, foldersFirst)

\* The set that the loop of _sortedFileSystemEntries() builds: of entries
\* with equal parts it keeps the first.
RECURSIVE EntrySetOf(_, _)
EntrySetOf(entriesToSort, result) ==
    IF entriesToSort = <<>> THEN result
    ELSE EntrySetOf(Tail(entriesToSort),
                    IF \E e \in result : e.parts = Head(entriesToSort).parts
                    THEN result
                    ELSE result \cup {Head(entriesToSort)})

SortedFileSystemEntries(entriesToSort) ==
    SortedEntries(EntrySetOf(entriesToSort, {}), TRUE)

\* str.lower()
CharLower(c) ==
    CASE c = "A" -> "a"
      [] c = "B" -> "b"
      [] OTHER -> c

StrLower(str) == [i \in 1..Len(str) |-> CharLower(str[i])]

\* LowerNameTransformation
LowerNameTransformation(parts) == [i \in 1..Len(parts) |-> StrLower(parts[i])]

Preserve == "preserve"
Lower == "lower"

\* ScmPuncher._createTransformedFileSystemEntry()
CreateTransformedFileSystemEntry(transformation, entry) ==
    IF transformation = Lower
    THEN [entry EXCEPT !.parts = LowerNameTransformation(entry.parts)]
    ELSE entry

---------------------------------------------------------------------------
(* difflib.SequenceMatcher(None, a, b).get_opcodes() as                    *)
(* _setAddedModifiedRemovedItems() calls it, on lists of fewer than 200    *)
(* entries (no junk, no popular elements).  Indices count from 0.          *)

\* find_longest_match(): of the longest matching blocks the one that starts
\* earliest in a, and of those the one that starts earliest in b.
FindLongestMatch(a, b, alo, ahi, blo, bhi) ==
    LET blocks == {x \in (alo..(ahi - 1)) \X (blo..(bhi - 1)) \X (1..(ahi - alo)) :
                      /\ x[1] + x[3] <= ahi
                      /\ x[2] + x[3] <= bhi
                      /\ \A d \in 0..(x[3] - 1) :
                            a[x[1] + d + 1].parts = b[x[2] + d + 1].parts}
    IN IF blocks = {} THEN <<alo, blo, 0>>
       ELSE CHOOSE x \in blocks :
               \A y \in blocks \ {x} :
                   \/ x[3] > y[3]
                   \/ (x[3] = y[3] /\ x[1] < y[1])
                   \/ (x[3] = y[3] /\ x[1] = y[1] /\ x[2] < y[2])

\* The matching blocks that get_matching_blocks() collects, in order.
RECURSIVE BlocksIn(_, _, _, _, _, _)
BlocksIn(a, b, alo, ahi, blo, bhi) ==
    LET x == FindLongestMatch(a, b, alo, ahi, blo, bhi)
        i == x[1]
        j == x[2]
        k == x[3]
    IN IF k = 0 THEN <<>>
       ELSE (IF alo < i /\ blo < j THEN BlocksIn(a, b, alo, i, blo, j) ELSE <<>>)
            \o <<x>>
            \o (IF i + k < ahi /\ j + k < bhi
                THEN BlocksIn(a, b, i + k, ahi, j + k, bhi)
                ELSE <<>>)

\* get_matching_blocks() collapses adjacent equal blocks.
RECURSIVE Collapsed(_, _, _, _)
Collapsed(blocks, i1, j1, k1) ==
    IF blocks = <<>>
    THEN IF k1 > 0 THEN <<<<i1, j1, k1>>>> ELSE <<>>
    ELSE LET x == Head(blocks)
         IN IF i1 + k1 = x[1] /\ j1 + k1 = x[2]
            THEN Collapsed(Tail(blocks), i1, j1, k1 + x[3])
            ELSE (IF k1 > 0 THEN <<<<i1, j1, k1>>>> ELSE <<>>)
                 \o Collapsed(Tail(blocks), x[1], x[2], x[3])

GetMatchingBlocks(a, b) ==
    Append(Collapsed(BlocksIn(a, b, 0, Len(a), 0, Len(b)), 0, 0, 0),
           <<Len(a), Len(b), 0>>)

\* The loop of get_opcodes() over the matching blocks.
RECURSIVE OpcodesFrom(_, _, _)
OpcodesFrom(blocks, i, j) ==
    IF blocks = <<>> THEN <<>>
    ELSE LET ai == Head(blocks)[1]
             bj == Head(blocks)[2]
             size == Head(blocks)[3]
             tag == IF i < ai /\ j < bj THEN "replace"
                    ELSE IF i < ai THEN "delete"
                    ELSE IF j < bj THEN "insert"
                    ELSE ""
         IN (IF tag # "" THEN <<<<tag, i, ai, j, bj>>>> ELSE <<>>)
            \o (IF size > 0
                THEN <<<<"equal", ai, ai + size, bj, bj + size>>>>
                ELSE <<>>)
            \o OpcodesFrom(Tail(blocks), ai + size, bj + size)

GetOpcodes(a, b) == OpcodesFrom(GetMatchingBlocks(a, b), 0, 0)

\* s[i:j]
Slice(s, i, j) == IF i >= j THEN <<>> ELSE SubSeq(s, i + 1, j)

---------------------------------------------------------------------------
(* scunch.py: ScmPuncher, the scheduling of entries.  The schedule is the  *)
(* record of _entriesToAdd, _entriesToTransfer, _entriesToRemove,          *)
(* _entriesToMove and _lastRemovedFolderEntry (NoEntry for None).          *)

EmptySchedule ==
    [add |-> {}, transfer |-> {}, remove |-> {}, move |-> <<>>, last |-> NoEntry]

\* The ScmError of _setExternalAndWorkEntries() and the ScmError of run().
WorkOnlyError == "ScmError: entry in folder to punch must exist only in work copy"
CommandError == "ScmError: cannot perform shell command"

\* ScmPuncher.MoveName, ScmPuncher.MoveNone
MoveName == "name"
MoveNone == "none"

\* TextOptions.PreserveTabs, TextOptions.Dos, TextOptions.Unix
PreserveTabs == 0
Dos == <<"\r", "\n">>
Unix == <<"\n">>

\* TextOptions.__init__(): textPatternSet holds the include patterns of the
\* set of patterns, and no pattern when it is None.
TextOptions(antPatternText, newLine_, tabSize_, stripTrailing) ==
    [trailingCharactersToStrip |->
         IF stripTrailing THEN {"\n", "\r", "\t", " "} ELSE {"\n", "\r"},
     newLine |-> newLine_,
     tabSize |-> tabSize_,
     textPatternSet |-> antPatternText]

\* The value of ScmPuncher.textOptions that stands for None.
NoTextOptions == TextOptions(<<>>, <<>>, PreserveTabs, FALSE)

---------------------------------------------------------------------------
(* The transfer of a file: a file is its content, a string of characters,  *)
(* and its stat, the time of its last modification and its mode; mtime is  *)
(* 0 and the mode "none" for a file that does not exist.                   *)

FileOf(content_, mtime_, mode_) ==
    [content |-> content_, stat |-> [mtime |-> mtime_, mode |-> mode_]]

NoFile == FileOf(<<>>, 0, "none")

\* The mode of a file that open() creates, and the time at which the
\* transfer writes, which is later than any time a file of Init has.
CreatedMode == "rw-r--r--"
Now == 3

\* TextOptions.isText() of an entry of the given parts
IsText(opts, parts) ==
    IF opts.textPatternSet # <<>>
    THEN SetMatchesParts(opts.textPatternSet, <<>>, parts)
    ELSE FALSE

\* str.rstrip(chars)
RECURSIVE RStrip(_, _)
RStrip(line, chars) ==
    IF line # <<>> /\ line[Len(line)] \in chars
    THEN RStrip(SubSeq(line, 1, Len(line) - 1), chars)
    ELSE line

\* str.expandtabs(tabsize) of the characters of line from index i on, j
\* being the column that the character at i is written to: a tab fills up
\* to the next multiple of tabsize, a line feed and a carriage return start
\* at column 0 again.
RECURSIVE ExpandTabsFrom(_, _, _, _)
ExpandTabsFrom(line, i, j, tabsize) ==
    IF i > Len(line) THEN <<>>
    ELSE IF line[i] = "\t"
        THEN LET incr == tabsize - (j % tabsize)
             IN [k \in 1..incr |-> " "] \o ExpandTabsFrom(line, i + 1, j + incr, tabsize)
    ELSE <<line[i]>> \o
         ExpandTabsFrom(line, i + 1,
                        IF line[i] \in {"\n", "\r"} THEN 0 ELSE j + 1, tabsize)

ExpandTabs(line, tabsize) == ExpandTabsFrom(line, 1, 0, tabsize)

\* A convertedLine() that leaves the end of the line as it is.
ConvertedLineKeepingEnd(opts, line) ==
    (IF opts.tabSize # 0 THEN ExpandTabs(line, opts.tabSize) ELSE line) \o opts.newLine

\* TextOptions.convertedLine()
ConvertedLine(opts, line) ==
    LET result == RStrip(line, opts.trailingCharactersToStrip)
    IN (IF opts.tabSize # 0 THEN ExpandTabs(result, opts.tabSize) ELSE result)
       \o opts.newLine

\* The lines that iterating over a file opened with "rb" yields: each ends
\* with its line feed, but for a last line that has none.
RECURSIVE LinesOf(_)
LinesOf(content_) ==
    IF content_ = <<>> THEN <<>>
    ELSE LET ends == {i \in 1..Len(content_) : content_[i] = "\n"}
             n == IF ends = {} THEN Len(content_)
                  ELSE CHOOSE i \in ends : \A k \in ends : i <= k
         IN <<SubSeq(content_, 1, n)>> \o LinesOf(SubSeq(content_, n + 1, Len(content_)))

\* No file is being transferred.
TextIdle ==
    /\ sourceFile = NoFile
    /\ targetFile = NoFile
    /\ textOptions = NoTextOptions
    /\ entryToTransferParts = <<>>
    /\ linesRead = 0

---------------------------------------------------------------------------
(* _tools.bundledPathsToRun(): a path and an option are strings of         *)
(* characters, a bundle is a list of paths.                                *)

\* _MIN_BASE_COMMAND_AND_OPTIONS_LENGTH
MinBaseCommandAndOptionsLength == 3

\* _UNESCAPED_CHARACTERS, as far as the characters of the model go: the
\* letters; "." stands for the characters that are counted twice.
UnescapedCharacters == {"a", "c"}

\* escapedLength() of bundledPathsToRun()
RECURSIVE EscapedLength(_)
EscapedLength(text) ==
    IF text = <<>> THEN MinBaseCommandAndOptionsLength
    ELSE EscapedLength(SubSeq(text, 1, Len(text) - 1)) +
         (IF text[Len(text)] \in UnescapedCharacters THEN 1 ELSE 2)

\* sum(escapedLength(text) for text in texts)
RECURSIVE SumOfEscapedLengths(_)
SumOfEscapedLengths(texts) ==
    IF texts = <<>> THEN 0
    ELSE EscapedLength(Head(texts)) + SumOfEscapedLengths(Tail(texts))

\* maxPathsLength of bundledPathsToRun()
MaxPathsLength(baseCommandAndOptions_, maxCommandLenth_) ==
    maxCommandLenth_ - SumOfEscapedLengths(baseCommandAndOptions_)

\* The loop of bundledPathsToRun() where a bundle that is full is yielded
\* and the path that did not fit is dropped.
WithPathToAppendDropped(generator, pathToAppend, maxPathsLength) ==
    LET pathToAppendLength == EscapedLength(pathToAppend)
    IN IF generator.resultLength + pathToAppendLength > maxPathsLength
       THEN IF generator.result = <<>>
            THEN [generator EXCEPT !.raised = TRUE]
            ELSE [generator EXCEPT !.yielded = Append(@, generator.result),
                                   !.result = <<>>,
                                   !.resultLength = 0]
       ELSE [generator EXCEPT !.result = Append(@, pathToAppend),
                              !.resultLength = @ + pathToAppendLength]

\* One run of the body of the while loop of bundledPathsToRun() for
\* pathToAppend: the generator is the list that is built, its length, the
\* bundles yielded so far and whether EnvironmentError was raised.
WithPathToAppend(generator, pathToAppend, maxPathsLength) ==
    LET pathToAppendLength == EscapedLength(pathToAppend)
    IN IF generator.resultLength + pathToAppendLength > maxPathsLength
       THEN IF generator.result = <<>>
            THEN [generator EXCEPT !.raised = TRUE]
            ELSE [generator EXCEPT !.yielded = Append(@, generator.result),
                                   !.result = <<pathToAppend>>,
                                   !.resultLength = pathToAppendLength]
       ELSE [generator EXCEPT !.result = Append(@, pathToAppend),
                              !.resultLength = @ + pathToAppendLength]

\* The generator before its first step.
NewGenerator == [result |-> <<>>, resultLength |-> 0, yielded |-> <<>>, raised |-> FALSE]

\* bundledPathsToRun() is not called.
BundleIdle ==
    /\ baseCommandAndOptions = <<>>
    /\ pathsToBundle = <<>>
    /\ maxCommandLenth = 0
    /\ bundling = NewGenerator
    /\ pathIndex = 0

---------------------------------------------------------------------------
(* main(): the status of the entries of the work copy and the actions      *)
(* before and after the punch.                                             *)

\* ScmStatus: the stati of the model, NoStatus being the None that the
\* status 'none' of svn is turned into.
Added == "added"
Conflicted == "conflicted"
External == "external"
Ignored == "ignored"
Missing == "missing"
Modified == "modified"
NoStatus == "None"
Normal == "normal"
Unversioned == "unversioned"

\* _SvnStatusContentHandler._svnStatusAsScmStatus() of a status that svn
\* knows
SvnStatusAsScmStatus(svnStatus) == IF svnStatus = "none" THEN NoStatus ELSE svnStatus

\* ScmStatus._StatiNotToReset
StatiNotToReset == {Ignored, NoStatus, Normal}

\* An isResetable() that looks at the status of the item only.
IsResetableByItemStatus(statusEntry) ==
    statusEntry.status \notin StatiNotToReset

\* ScmStatus.isResetable()
IsResetable(statusEntry) ==
    LET resetBecauseOfEntryStatus == statusEntry.status \notin StatiNotToReset
        resetBecauseOfPropertiesStatus ==
            statusEntry.propertiesStatus \notin StatiNotToReset
    IN resetBecauseOfEntryStatus \/ resetBecauseOfPropertiesStatus

\* _Actions
ActionCheck == "check"
ActionCommit == "commit"
ActionNone == "none"
ActionPurge == "purge"
ActionUpdate == "update"
ActionReset == "reset"

\* main() is not called.
MainIdle ==
    /\ statusItems = <<>>
    /\ actionsToPerformBeforePunching = <<>>
    /\ actionsToPerformAfterPunching = <<>>
    /\ actionIndex = 0
    /\ performed = <<>>
    /\ exitCodeOfMain = 0
    /\ exitError = "none"

ToolsIdle == TextIdle /\ BundleIdle /\ MainIdle

---------------------------------------------------------------------------
\* The fields of a ScmPuncher after _clear(); assigned holds the names of
\* the fields that are not None.
ClearedPuncher ==
    [externalEntries |-> <<>>, workEntries |-> <<>>, schedule |-> EmptySchedule,
     renamedExternalEntries |-> <<>>, renamedToOriginalExternalEntriesMap |-> {},
     assigned |-> {}, moveMode |-> MoveName, nameTransformation |-> Preserve,
     textOptions |-> NoTextOptions]

\* The fields that only _setAddedModifiedRemovedItems() assigns.
RenamedFields == {"renamedExternalEntries", "renamedToOriginalExternalEntriesMap"}

\* A _clear() that leaves the mode of moves, the name transformation and
\* the text options as they are.
ClearedKeepingConfiguration(fields) ==
    [fields EXCEPT
        !.externalEntries = <<>>,
        !.workEntries = <<>>,
        !.schedule = EmptySchedule,
        !.assigned = fields.assigned \cap RenamedFields]

\* ScmPuncher._clear() of a puncher of the given fields: it assigns every
\* field of ClearedPuncher but the renamed external entries and their map.
Cleared(fields) ==
    [ClearedPuncher EXCEPT
        !.renamedExternalEntries = fields.renamedExternalEntries,
        !.renamedToOriginalExternalEntriesMap = fields.renamedToOriginalExternalEntriesMap,
        !.assigned = fields.assigned \cap RenamedFields]

\* scunch() with the defaults of its parameters.
DefaultOptions ==
    [include |-> <<>>, exclude |-> <<>>, workOnly |-> <<>>,
     moveMode |-> MoveName, nameTransformation |-> Preserve,
     textOptions |-> NoTextOptions]

\* s[:n]
SliceTo(s, n) == SubSeq(s, 1, Min(n, Len(s)))

\* ScmPuncher._isInLastRemovedFolder()
IsInLastRemovedFolder(schedule, entryToCheck) ==
    /\ schedule.last # NoEntry
    /\ schedule.last.parts = SliceTo(entryToCheck.parts, Len(schedule.last.parts))

\* ScmPuncher._setLastRemovedFolder()
SetLastRemovedFolder(schedule, lastRemovedEntry) ==
    [schedule EXCEPT !.last = IF lastRemovedEntry.kind = Folder
                              THEN lastRemovedEntry
                              ELSE NoEntry]

\* set.add(): a set keeps the entry it has of entries with equal parts.
SetAdd(entries, entry) ==
    IF \E e \in entries : e.parts = entry.parts THEN entries
    ELSE entries \cup {entry}

\* ScmPuncher._add()
RECURSIVE Add(_, _)
Add(schedule, entries) ==
    IF entries = <<>> THEN schedule
    ELSE LET entryToAdd == Head(entries)
         IN Add(IF ~IsInLastRemovedFolder(schedule, entryToAdd)
                THEN [schedule EXCEPT !.add = SetAdd(@, entryToAdd)]
                ELSE schedule,
                Tail(entries))

\* ScmPuncher._remove()
RECURSIVE Remove(_, _)
Remove(schedule, entries) ==
    IF entries = <<>> THEN schedule
    ELSE LET entryToRemove == Head(entries)
         IN Remove(IF ~IsInLastRemovedFolder(schedule, entryToRemove)
                   THEN [SetLastRemovedFolder(schedule, entryToRemove)
                            EXCEPT !.remove = SetAdd(@, entryToRemove)]
                   ELSE schedule,
                   Tail(entries))

\* Scheduling for add what is to transfer.
TransferAsAdd(schedule, entries) == Add(schedule, entries)

\* ScmPuncher._transfer()
RECURSIVE Transfer(_, _)
Transfer(schedule, entries) ==
    IF entries = <<>> THEN schedule
    ELSE LET entryToTransfer == Head(entries)
         IN Transfer(IF ~IsInLastRemovedFolder(schedule, entryToTransfer)
                     THEN [schedule EXCEPT !.transfer = SetAdd(@, entryToTransfer)]
                     ELSE schedule,
                     Tail(entries))

\* entry in entries, for a set or list of entries
EntryIn(entry, entries) == \E e \in entries : e.parts = entry.parts

\* set(some) | set(other)
EntryUnion(some, other) == some \cup {e \in other : ~EntryIn(e, some)}

\* The body of the loop over allEntries of an operation 'replace'.
Replaced(schedule, replacedEntry, replacedWorkEntries, replacedRenamedExternalEntries) ==
    IF EntryIn(replacedEntry, replacedRenamedExternalEntries)
    THEN IF EntryIn(replacedEntry, replacedWorkEntries)
         THEN Transfer(schedule, <<replacedEntry>>)
         ELSE Add(schedule, <<replacedEntry>>)
    ELSE Remove(schedule, <<replacedEntry>>)

\* The schedules the loop over allEntries can end with: it iterates a set,
\* in an order that the hashes of the entries decide.
RECURSIVE ReplacedAll(_, _, _, _)
ReplacedAll(schedule, allEntries, replacedWorkEntries, replacedRenamedExternalEntries) ==
    IF allEntries = {} THEN {schedule}
    ELSE UNION {ReplacedAll(Replaced(schedule, replacedEntry, replacedWorkEntries,
                                     replacedRenamedExternalEntries),
                            allEntries \ {replacedEntry},
                            replacedWorkEntries, replacedRenamedExternalEntries) :
                   replacedEntry \in allEntries}

\* The body of the loop over matcher.get_opcodes().
Scheduled(schedule, opcode, workEntries_, renamedExternalEntries) ==
    LET operation == opcode[1]
        i1 == opcode[2]
        i2 == opcode[3]
        j1 == opcode[4]
        j2 == opcode[5]
    IN CASE operation = "insert" ->
                {Add(schedule, Slice(renamedExternalEntries, j1, j2))}
         [] operation = "equal" ->
                {Transfer(schedule, Slice(renamedExternalEntries, j1, j2))}
         [] operation = "delete" ->
                {Remove(schedule, Slice(workEntries_, i1, i2))}
         [] operation = "replace" ->
                ReplacedAll(schedule,
                            EntryUnion(SeqRange(Slice(workEntries_, i1, i2)),
                                       SeqRange(Slice(renamedExternalEntries, j1, j2))),
                            SeqRange(Slice(workEntries_, i1, i2)),
                            SeqRange(Slice(renamedExternalEntries, j1, j2)))

RECURSIVE ScheduledAll(_, _, _, _)
ScheduledAll(schedules, opcodes, workEntries_, renamedExternalEntries) ==
    IF opcodes = <<>> THEN schedules
    ELSE ScheduledAll(UNION {Scheduled(schedule, Head(opcodes), workEntries_,
                                       renamedExternalEntries) :
                                schedule \in schedules},
                      Tail(opcodes), workEntries_, renamedExternalEntries)

\* The renamed external entries of _setAddedModifiedRemovedItems().
RenamedExternalEntries(transformation, externalEntries_) ==
    [i \in 1..Len(externalEntries_) |->
        CreateTransformedFileSystemEntry(transformation, externalEntries_[i])]

\* Two external entries get the same name: ScmNameClashError.
HasNameClash(transformation, externalEntries_) ==
    \E i, j \in 1..Len(externalEntries_) :
        /\ i < j
        /\ CreateTransformedFileSystemEntry(transformation, externalEntries_[i]).parts
           = CreateTransformedFileSystemEntry(transformation, externalEntries_[j]).parts

\* The renamed external entries that the loop of
\* _setAddedModifiedRemovedItems() has appended when it raises
\* ScmNameClashError, or when it ends.
RenamedUntilNameClash(transformation, externalEntries_) ==
    LET renamed == RenamedExternalEntries(transformation, externalEntries_)
        clashes == {j \in 1..Len(renamed) :
                       \E i \in 1..(j - 1) : renamed[i].parts = renamed[j].parts}
    IN IF clashes = {} THEN renamed
       ELSE SubSeq(renamed, 1, (CHOOSE j \in clashes : \A k \in clashes : j <= k) - 1)

\* self._renamedToOriginalExternalEntriesMap after n external entries, as
\* the set of the pairs of a renamed and its original external entry.
RenamedToOriginal(transformation, externalEntries_, n) ==
    {<<CreateTransformedFileSystemEntry(transformation, externalEntries_[i]),
       externalEntries_[i]>> : i \in 1..n}

\* ScmPuncher._setAddedModifiedRemovedItems(): the schedules it can end with.
AddedModifiedRemovedItems(transformation, workEntries_, externalEntries_) ==
    LET renamedExternalEntries ==
            SortedFileSystemEntries(RenamedExternalEntries(transformation, externalEntries_))
    IN ScheduledAll({EmptySchedule},
                    GetOpcodes(workEntries_, renamedExternalEntries),
                    workEntries_, renamedExternalEntries)

\* FileSystemEntry.name
EntryName(entry) == IF entry.parts = <<>> THEN EmptyStr ELSE entry.parts[Len(entry.parts)]

\* The keys of ScmPuncher._createNameAndKindToListOfFolderItemsMap().
NameAndKind(entry) == <<EntryName(entry), entry.kind>>

\* No key: _setCopiedAndMovedEntries() finds nothing to move.
NoMovedKeys(schedule) == {}

\* The keys of the entries to add that are keys of entries to remove,
\* whatever their kind.
MovedKeysOfAnyKind(schedule) ==
    {key \in {NameAndKind(e) : e \in schedule.add} :
        \E e \in schedule.remove : NameAndKind(e) = key}

\* The keys for which _setCopiedAndMovedEntries() schedules a move.
MovedKeys(schedule) ==
    {key \in {NameAndKind(e) : e \in schedule.add} :
        /\ key[2] = File
        /\ \E e \in schedule.remove : NameAndKind(e) = key}

\* All orders of the elements of a set.
RECURSIVE Orders(_)
Orders(S) ==
    IF S = {} THEN {<<>>}
    ELSE UNION {{<<x>> \o rest : rest \in Orders(S \ {x})} : x \in S}

\* The loop of _setCopiedAndMovedEntries() over the keys in a given order,
\* choice giving for each key the pair of the first removed and the first
\* added entry of the lists of the maps.
RECURSIVE MovedIn(_, _, _)
MovedIn(schedule, keys, choice) ==
    IF keys = <<>> THEN schedule
    ELSE LET removedSourceEntry == choice[Head(keys)][1]
             addedTargetEntry == choice[Head(keys)][2]
         IN MovedIn([schedule EXCEPT
                        !.remove = @ \ {removedSourceEntry},
                        !.add = @ \ {addedTargetEntry},
                        !.move = Append(@, <<removedSourceEntry, addedTargetEntry>>)],
                    Tail(keys), choice)

\* ScmPuncher._setCopiedAndMovedEntries(): the schedules it can end with.
\* The maps and their lists are built by iterating sets and a dict, in an
\* order that the hashes of the entries decide.
CopiedAndMovedEntries(schedule) ==
    LET keys == MovedKeys(schedule)
        choices == {choice \in [keys -> schedule.remove \X schedule.add] :
                       \A key \in keys :
                           /\ NameAndKind(choice[key][1]) = key
                           /\ NameAndKind(choice[key][2]) = key}
    IN {MovedIn(schedule, order, choice) : order \in Orders(keys), choice \in choices}

\* punch() with _setCopiedAndMovedEntries() whatever the mode of moves.
CopiedAndMovedAlways(moveMode, schedule) == CopiedAndMovedEntries(schedule)

\* punch(): _setCopiedAndMovedEntries() unless the mode of moves is "none".
CopiedAndMovedUnlessNone(moveMode, schedule) ==
    IF moveMode # MoveNone THEN CopiedAndMovedEntries(schedule) ELSE {schedule}

\* No work entry is found not to comply with the name transformation.
AllWorkEntriesComply(transformation, workEntries_) == {}

\* The existing work entries that do not comply with the name
\* transformation, as _setExternalAndWorkEntries() collects them: the set
\* of the pairs of the path of the entry and its transformed path.
WorkEntriesNotComplyingWithNameTransformationMap(transformation, workEntries_) ==
    IF transformation = Preserve THEN {}
    ELSE {<<workEntries_[i].parts,
            CreateTransformedFileSystemEntry(transformation, workEntries_[i]).parts>> :
             i \in {k \in 1..Len(workEntries_) :
                       CreateTransformedFileSystemEntry(transformation, workEntries_[k]).parts
                       # workEntries_[k].parts}}

---------------------------------------------------------------------------
(* scunch.py: ScmPuncher._applyChangedEntries() and what it does to the    *)
(* work copy.  A step on the work copy gives the tree it leaves and        *)
(* whether it ended without an error.                                      *)

\* The phases of _applyChangedEntries() in the reverse of their order.
NextPhaseReversed(phase) ==
    CASE phase = "transfer" -> "remove"
      [] phase = "remove" -> "move"
      [] phase = "move" -> "add"
      [] phase = "add" -> "clear"

\* The phase of _applyChangedEntries() that follows a phase; the finally
\* clause of punch() follows the last.
NextPhase(phase) ==
    CASE phase = "transfer" -> "add"
      [] phase = "add" -> "move"
      [] phase = "move" -> "remove"
      [] phase = "remove" -> "clear"

\* The path exists and is a folder; the root of a tree always is.
IsFolder(tree, names) == names = <<>> \/ names \in tree.folders

\* s[:n] for every n below the length of s: the proper ancestors of a path.
ProperPrefixes(names) == {SubSeq(names, 1, n) : n \in 0..(Len(names) - 1)}

\* _tools.makeFolder(): os.makedirs(), where an existing path is no error
\* but a file in the place of an ancestor folder is.
MakeFolder(tree, names) ==
    IF \E ancestor \in ProperPrefixes(names) : ancestor \in tree.files
    THEN [tree |-> tree, ok |-> FALSE]
    ELSE IF names \in Paths(tree)
    THEN [tree |-> tree, ok |-> TRUE]
    ELSE [tree |-> [tree EXCEPT !.folders =
                       @ \cup {SubSeq(names, 1, n) : n \in 1..Len(names)}],
          ok |-> TRUE]

\* shutil.copy2() as _copyBinaryFile() calls it: a target that is a folder
\* stands for the file of the name of the source in that folder; the
\* target file is written where its folder exists.
CopyFile(tree, sourceNames, targetNames) ==
    LET target == IF IsFolder(tree, targetNames)
                  THEN Append(targetNames, sourceNames[Len(sourceNames)])
                  ELSE targetNames
    IN IF IsFolder(tree, target) \/ ~IsFolder(tree, Dirname(target))
       THEN [tree |-> tree, ok |-> FALSE]
       ELSE [tree |-> [tree EXCEPT !.files = @ \cup {target},
                                   !.written = @ \cup {target}],
             ok |-> TRUE]

\* ScmPuncher._externalPathFor(): the original of a renamed external entry.
ExternalEntryFor(transformation, externalEntries_, renamedExternalEntry) ==
    CHOOSE externalEntry \in SeqRange(externalEntries_) :
        CreateTransformedFileSystemEntry(transformation, externalEntry).parts
        = renamedExternalEntry.parts

\* _copyTextFile(): open(targetFilePath, "wb") fails for a target that is a
\* folder or whose folder does not exist; else the target file is written.
CopyTextFileTo(tree, targetNames) ==
    IF IsFolder(tree, targetNames) \/ ~IsFolder(tree, Dirname(targetNames))
    THEN [tree |-> tree, ok |-> FALSE]
    ELSE [tree |-> [tree EXCEPT !.files = @ \cup {targetNames},
                                !.written = @ \cup {targetNames}],
          ok |-> TRUE]

\* ScmPuncher._transferEntryFromExternalToWork(), called with the text
\* options of the puncher.
TransferEntryFromExternalToWork(tree, transformation, externalEntries_, entryToTransfer) ==
    IF /\ puncher.textOptions # NoTextOptions
       /\ IsText(puncher.textOptions, entryToTransfer.parts)
    THEN CopyTextFileTo(tree, NamesOf(entryToTransfer.parts))
    ELSE CopyFile(tree,
                  NamesOf(ExternalEntryFor(transformation, externalEntries_,
                                           entryToTransfer).parts),
                  NamesOf(entryToTransfer.parts))

\* The body of the loops over the entries to transfer and to add.
TransferOrMake(tree, transformation, externalEntries_, entry) ==
    IF entry.kind = Folder
    THEN MakeFolder(tree, NamesOf(entry.parts))
    ELSE TransferEntryFromExternalToWork(tree, transformation, externalEntries_, entry)

\* The loop over sorted(self._entriesToTransfer) or sorted(self._entriesToAdd),
\* which an error ends.
RECURSIVE TransferredAll(_, _, _, _)
TransferredAll(tree, transformation, externalEntries_, entries) ==
    IF entries = <<>> THEN [tree |-> tree, ok |-> TRUE]
    ELSE LET step == TransferOrMake(tree, transformation, externalEntries_, Head(entries))
         IN IF step.ok
            THEN TransferredAll(step.tree, transformation, externalEntries_, Tail(entries))
            ELSE step

\* entry._relativePath of each entry of a list, as the parts of the entry.
RelativePaths(entries) == [i \in 1..Len(entries) |-> entries[i].parts]

\* The path and all paths below it.
IsAtOrBelow(names, top) == Len(names) >= Len(top) /\ SubSeq(names, 1, Len(top)) = top

\* What "svn move --force source targetFolder" does to the work copy; it
\* fails unless the source is a file and the target is a folder without an
\* entry of the name of the source.
ScmMove(tree, sourceNames, targetFolderNames) ==
    LET target == Append(targetFolderNames, sourceNames[Len(sourceNames)])
    IN IF /\ sourceNames \in tree.files
          /\ IsFolder(tree, targetFolderNames)
          /\ target \notin Paths(tree)
       THEN [tree |-> [tree EXCEPT !.files = (@ \ {sourceNames}) \cup {target}],
             ok |-> TRUE]
       ELSE [tree |-> tree, ok |-> FALSE]

\* What "svn remove --force" of paths does to the work copy: the paths and
\* all below them are gone.
ScmRemove(tree, relativePaths) ==
    LET gone(names) == \E i \in 1..Len(relativePaths) :
                           IsAtOrBelow(names, NamesOf(relativePaths[i]))
    IN [tree EXCEPT !.folders = {names \in @ : ~gone(names)},
                    !.files = {names \in @ : ~gone(names)}]

\* The loop over self._entriesToMove: the calls of scmWork.move() it makes,
\* the tree it leaves, and the error that ended it.  The call of number
\* failAt ends with a non-zero exit code; 0 stands for none.
RECURSIVE MovedAll(_, _, _, _, _, _, _)
MovedAll(tree, transformation, externalEntries_, entriesToMove, made, failAt, n) ==
    IF entriesToMove = <<>> THEN [tree |-> tree, error |-> "none", calls |-> made]
    ELSE LET sourceEntryToMove == Head(entriesToMove)[1]
             targetEntryToMove == Head(entriesToMove)[2]
             sourcePath == sourceEntryToMove.parts
             targetPath == Dirname(targetEntryToMove.parts)
             call == [op |-> "move", paths |-> <<sourcePath>>, target |-> targetPath]
             moved == ScmMove(tree, NamesOf(sourcePath), targetPath)
             copied == TransferEntryFromExternalToWork(moved.tree, transformation,
                                                       externalEntries_, targetEntryToMove)
         IN IF n = failAt \/ ~moved.ok
            THEN [tree |-> tree, error |-> CommandError, calls |-> Append(made, call)]
            ELSE IF ~copied.ok
            THEN [tree |-> copied.tree, error |-> "EnvironmentError",
                  calls |-> Append(made, call)]
            ELSE MovedAll(copied.tree, transformation, externalEntries_,
                          Tail(entriesToMove), Append(made, call), failAt, n + 1)

---------------------------------------------------------------------------
(* Inputs of the matcher.                                                  *)

\* Names of files and folders.
Names == {Str1("a"), Str1("b"), Str2("a", "b")}

\* Texts of pattern items: "**", "*", "?", "a", "b".
ItemTexts == {AntAllMagic, Str1("*"), Str1("?"), Str1("a"), Str1("b")}

\* _textItemsMatchPatternItems() asserts that no "**" follows a "**".
HasConsecutiveAllMagic(pattern) ==
    \E i \in 1..(Len(pattern) - 1) :
        pattern[i] = AntAllMagic /\ pattern[i + 1] = AntAllMagic

Patterns ==
    {p \in SeqsUpTo(ItemTexts, MaxPatternLen) : ~HasConsecutiveAllMagic(p)}

\* Parts of a file path, and of a folder path (with its empty last part).
Texts ==
    SeqsUpTo(Names, MaxTextLen)
        \cup {Append(t, EmptyStr) : t \in SeqsUpTo(Names, MaxTextLen - 1) \ {<<>>}}

HasAllMagic(pattern) == \E i \in 1..Len(pattern) : pattern[i] = AntAllMagic

---------------------------------------------------------------------------
(* Specification of the matcher: AntPattern.matchesParts() on any pattern  *)
(* and any path.                                                           *)

InitMatch ==
    /\ pc = "match"
    /\ patternItems \in Patterns
    /\ textItems \in Texts
    /\ matchResult = FALSE
    /\ includePatterns = <<>>
    /\ excludePatterns = <<>>
    /\ setResult = FALSE
    /\ scanTree = EmptyTree
    /\ listOrder = <<>>
    /\ addFolders = FALSE
    /\ found = <<>>
    /\ workTree = EmptyTree
    /\ externalTree = EmptyTree
    /\ options = DefaultOptions
    /\ puncher = ClearedPuncher
    /\ error = "none"
    /\ calls = <<>>
    /\ punches = 0
    /\ workTreeBefore = EmptyTree
    /\ existingToTransformedPathMap = {}
    /\ ToolsIdle

MatchesParts ==
    /\ pc = "match"
    /\ pc' = "matched"
    /\ matchResult' = AntPatternMatchesParts(patternItems, textItems)
    /\ UNCHANGED <<patternItems, textItems, setVars, findVars, punchVars, toolVars>>

NextMatch == MatchesParts

SpecMatch == InitMatch /\ [][NextMatch]_vars


---------------------------------------------------------------------------
(* Specification of the pattern set: AntPatternSet.matchesParts() on any   *)
(* include and exclude list and any path.  The default excludes of         *)
(* AntPatternSet() are patterns as any other in the exclude list.          *)

SetPatterns ==
    {<<Str1("a")>>, <<AntAllMagic, Str1("b")>>, <<Str1("a"), AntAllMagic>>}

SetTexts ==
    SeqsUpTo(Names, MaxSetTextLen)
        \cup {Append(t, EmptyStr) : t \in SeqsUpTo(Names, MaxSetTextLen - 1) \ {<<>>}}

InitSet ==
    /\ pc = "matchSet"
    /\ patternItems = <<>>
    /\ textItems \in SetTexts
    /\ matchResult = FALSE
    /\ includePatterns \in SeqsUpTo(SetPatterns, MaxSetLen)
    /\ excludePatterns \in SeqsUpTo(SetPatterns, MaxSetLen)
    /\ setResult = FALSE
    /\ scanTree = EmptyTree
    /\ listOrder = <<>>
    /\ addFolders = FALSE
    /\ found = <<>>
    /\ workTree = EmptyTree
    /\ externalTree = EmptyTree
    /\ options = DefaultOptions
    /\ puncher = ClearedPuncher
    /\ error = "none"
    /\ calls = <<>>
    /\ punches = 0
    /\ workTreeBefore = EmptyTree
    /\ existingToTransformedPathMap = {}
    /\ ToolsIdle

SetMatches ==
    /\ pc = "matchSet"
    /\ pc' = "matchedSet"
    /\ setResult' = SetMatchesParts(includePatterns, excludePatterns, textItems)
    /\ UNCHANGED <<matchVars, includePatterns, excludePatterns, findVars, punchVars, toolVars>>

NextSet == SetMatches

SpecSet == InitSet /\ [][NextSet]_vars

---------------------------------------------------------------------------
(* Claims about the matcher.                                               *)

\* A segment matches a pattern segment: literal equality or shell glob.
SegmentMatches(item, segment) == Fnmatch(segment, item)

ElementWise(text, pattern) ==
    /\ Len(text) = Len(pattern)
    /\ \A i \in 1..Len(pattern) : SegmentMatches(pattern[i], text[i])

\* Each "**" takes zero or more whole segments, every other pattern segment
\* exactly one segment that it matches.
RECURSIVE AntSemantics(_, _)
AntSemantics(text, pattern) ==
    IF pattern = <<>> THEN text = <<>>
    ELSE IF Head(pattern) = AntAllMagic
        THEN \E k \in 0..Len(text) : AntSemantics(SliceFrom(text, k), Tail(pattern))
    ELSE /\ text # <<>>
         /\ SegmentMatches(Head(pattern), Head(text))
         /\ AntSemantics(Tail(text), Tail(pattern))

\* C3: matchesParts(path) is true iff each "**" can be assigned zero or more
\* whole path segments and every other pattern segment exactly one path
\* segment that it matches, the assignments making up exactly the path.
C3_MatchesIffAssignmentExists ==
    pc = "matched" => (matchResult <=> AntSemantics(textItems, patternItems))

\* C4 as claimed: for a pattern without "**", matches(P, T) is true iff T has
\* as many segments as P and every segment of T matches the pattern segment
\* at the same position.
C4_MatchesIffElementWise ==
    (pc = "matched" /\ ~HasAllMagic(patternItems))
        => (matchResult <=> ElementWise(textItems, patternItems))

\* C4 as amended: for a pattern without "**", matches(P, T) is true iff T
\* matches P segment by segment with equal counts, or T has exactly one
\* segment less than P, the last segment of P is "*" (or empty) and T
\* matches the segments of P before it segment by segment.
C4_MatchesIffElementWiseOrTrailingStar ==
    (pc = "matched" /\ ~HasAllMagic(patternItems))
        => (matchResult <=>
               \/ ElementWise(textItems, patternItems)
               \/ /\ Len(patternItems) = Len(textItems) + 1
                  /\ patternItems[Len(patternItems)] \in {Str1("*"), EmptyStr}
                  /\ ElementWise(textItems, SubSeq(patternItems, 1, Len(textItems))))

C4_Witness ==
    /\ pc = "matched"
    /\ ~HasAllMagic(patternItems)
    /\ Len(patternItems) = 2
    /\ Len(textItems) = 1
    /\ matchResult

\* C5: for a pattern "**" followed by k >= 1 segments other than "**", a
\* non-empty path matches iff it has at least k segments and its last k
\* segments match those k pattern segments one by one; a path with fewer
\* than k segments never matches.
C5_LastAllMagicMatchesSuffixOfEqualLength ==
    (/\ pc = "matched"
     /\ Len(patternItems) >= 2
     /\ Head(patternItems) = AntAllMagic
     /\ ~HasAllMagic(Tail(patternItems))
     /\ textItems # <<>>)
        => (matchResult <=>
               /\ Len(textItems) >= Len(patternItems) - 1
               /\ ElementWise(SliceLast(textItems, Len(patternItems) - 1),
                              Tail(patternItems)))

\* C6: AntPatternSet.matchesParts(path) is true iff (the include list is
\* empty or the path matches some include pattern) and not (the exclude list
\* is non-empty and the path matches some exclude pattern), whatever the
\* order of the patterns in each list.
C6_SetMatchesIffIncludedAndNotExcluded ==
    pc = "matchedSet" =>
        (setResult <=>
            /\ \/ includePatterns = <<>>
               \/ \E i \in 1..Len(includePatterns) :
                    AntPatternMatchesParts(includePatterns[i], textItems)
            /\ ~(/\ excludePatterns # <<>>
                 /\ \E j \in 1..Len(excludePatterns) :
                      AntPatternMatchesParts(excludePatterns[j], textItems)))

C6_Witness ==
    /\ pc = "matchedSet"
    /\ Len(includePatterns) = 2
    /\ Len(excludePatterns) = 2
    /\ AntPatternMatchesParts(includePatterns[2], textItems)
    /\ ~AntPatternMatchesParts(includePatterns[1], textItems)
    /\ AntPatternMatchesParts(excludePatterns[2], textItems)
    /\ ~AntPatternMatchesParts(excludePatterns[1], textItems)
    /\ ~setResult

---------------------------------------------------------------------------
(* Specification of the directory walk: AntPatternSet.find() on any tree   *)
(* of at most MaxEntries entries, at most MaxDepth names deep.             *)

TreeNames == {Str1("a"), Str1("b")}

\* The trees that adding one file or folder to a tree gives.
GrownBy(tree, names, maxDepth) ==
    {[folders |-> tree.folders \cup (IF kind = "folder" THEN {Append(parent, name)} ELSE {}),
      files |-> tree.files \cup (IF kind = "file" THEN {Append(parent, name)} ELSE {}),
      written |-> {}] :
        <<parent, name, kind>> \in
            {x \in (tree.folders \cup {<<>>}) \X names \X {"file", "folder"} :
                /\ Append(x[1], x[2]) \notin Paths(tree)
                /\ Len(x[1]) < maxDepth}}

RECURSIVE TreesOf(_, _, _)
TreesOf(n, names, maxDepth) ==
    IF n = 0 THEN {EmptyTree}
    ELSE UNION {GrownBy(tree, names, maxDepth) : tree \in TreesOf(n - 1, names, maxDepth)}

Trees == UNION {TreesOf(n, TreeNames, MaxDepth) : n \in 0..MaxEntries}

\* The orders in which os.listdir() can list names.
OrdersOf(names) ==
    {o \in [1..Cardinality(names) -> names] :
        \A i, j \in DOMAIN o : i # j => o[i] # o[j]}

ListOrders == OrdersOf(TreeNames)

PatternLists == SeqsUpTo(SetPatterns, 1)

InitFind ==
    /\ pc = "find"
    /\ patternItems = <<>>
    /\ textItems = <<>>
    /\ matchResult = FALSE
    /\ includePatterns \in PatternLists
    /\ excludePatterns \in PatternLists
    /\ setResult = FALSE
    /\ scanTree \in Trees
    /\ listOrder \in ListOrders
    /\ addFolders \in BOOLEAN
    /\ found = <<>>
    /\ workTree = EmptyTree
    /\ externalTree = EmptyTree
    /\ options = DefaultOptions
    /\ puncher = ClearedPuncher
    /\ error = "none"
    /\ calls = <<>>
    /\ punches = 0
    /\ workTreeBefore = EmptyTree
    /\ existingToTransformedPathMap = {}
    /\ ToolsIdle

Find ==
    /\ pc = "find"
    /\ pc' = "found"
    /\ found' = FindInFolder(scanTree, listOrder, includePatterns, excludePatterns,
                             addFolders)
    /\ UNCHANGED <<matchVars, setVars, scanTree, listOrder, addFolders, punchVars, toolVars>>

NextFind == Find

SpecFind == InitFind /\ [][NextFind]_vars

---------------------------------------------------------------------------
(* Claims about the directory walk.                                        *)

\* The proper ancestor folders of a yielded path below the root.
ProperAncestors(path) ==
    {SubSeq(NamesOf(path), 1, k) : k \in 1..(Len(NamesOf(path)) - 1)}

\* C7: find(root, addFolders=True) yields, for every yielded path, each of
\* its proper ancestor folders below the root as a folder path, and before
\* that path, however deep the nesting and even when the ancestors match no
\* include pattern.
C7_AncestorsAreYieldedBefore ==
    (pc = "found" /\ addFolders) =>
        \A i \in 1..Len(found) :
            \A ancestor \in ProperAncestors(found[i]) :
                \E j \in 1..(i - 1) : found[j] = AsFolderPath(ancestor)

\* A file three folders deep, none of the folders matching the pattern set.
C7_Witness ==
    /\ pc = "found"
    /\ addFolders
    /\ includePatterns # <<>>
    /\ \E i \in 1..Len(found) :
        /\ ~IsFolderPath(found[i])
        /\ Len(found[i]) = 4
        /\ \A ancestor \in ProperAncestors(found[i]) :
            ~SetMatchesParts(includePatterns, excludePatterns, ancestor)

\* C8: find(root, addFolders=True) yields every folder path at most once,
\* for any tree and any pattern set.
C8_FolderPathsAreYieldedOnce ==
    (pc = "found" /\ addFolders) =>
        \A i, j \in 1..Len(found) :
            (i # j /\ found[i] = found[j]) => ~IsFolderPath(found[i])

---------------------------------------------------------------------------
(* Specification of the puncher: scunch() punches an external folder into  *)
(* a work copy, the work copy is committed, and scunch() punches the same  *)
(* folder again.  The names of the entries match none of the default       *)
(* excludes of AntPatternSet.                                              *)

PunchNames == {Str1("a"), Str1("A")}

PunchPatterns == {<<Str1("a")>>, <<AntAllMagic, Str1("A")>>}

\* The names as os.listdir() lists them when it sorts them.
SortedCharsOrder == <<Str1("A"), Str1("a")>>

WorkTrees == UNION {TreesOf(n, PunchNames, MaxPunchDepth) : n \in 0..MaxWorkEntries}

ExternalTrees == UNION {TreesOf(n, PunchNames, MaxPunchDepth) : n \in 0..MaxExternalEntries}

PunchPatternLists == SeqsUpTo(PunchPatterns, 1)

\* Text options that take every file for a text file.
PunchTextOptions == TextOptions(<<<<AntAllMagic>>>>, Unix, PreserveTabs, FALSE)

\* The number of arguments of scunch() that are not the default.
ChangedOptions(o) ==
    Cardinality({name \in DOMAIN DefaultOptions : o[name] # DefaultOptions[name]})

Options ==
    {o \in [include : PunchPatternLists, exclude : PunchPatternLists,
            workOnly : PunchPatternLists, moveMode : {MoveName, MoveNone},
            nameTransformation : {Preserve, Lower},
            textOptions : {NoTextOptions, PunchTextOptions}] :
        ChangedOptions(o) <= MaxOptions}

Init ==
    /\ pc = "idle"
    /\ patternItems = <<>>
    /\ textItems = <<>>
    /\ matchResult = FALSE
    /\ includePatterns = <<>>
    /\ excludePatterns = <<>>
    /\ setResult = FALSE
    /\ scanTree = EmptyTree
    /\ listOrder = <<>>
    /\ addFolders = FALSE
    /\ found = <<>>
    /\ workTree \in WorkTrees
    /\ externalTree \in ExternalTrees
    /\ options \in Options
    /\ puncher = ClearedPuncher
    /\ error = "none"
    /\ calls = <<>>
    /\ punches = 0
    /\ workTreeBefore = workTree
    /\ existingToTransformedPathMap = {}
    /\ ToolsIdle

\* An exception does not end the apply step: the entries to remove are
\* removed none the less.
RaiseAndRemove(err) ==
    /\ error' = err
    /\ pc' = "remove"

\* An exception ends punch(), and it is taken for a ScmNameClashError.
RaiseNameClash(err) ==
    /\ error' = "ScmNameClashError"
    /\ pc' = "clear"

\* The exception err ends punch(): its finally clause is next.
Raise(err) ==
    /\ error' = err
    /\ pc' = "clear"

\* scunch(): a puncher gets the mode of moves, the name transformation and
\* the text options and punches.
Scunch ==
    /\ pc = "idle"
    /\ punches < MaxPunches
    /\ punches' = punches + 1
    /\ puncher' = [ClearedPuncher EXCEPT !.moveMode = options.moveMode,
                                         !.nameTransformation = options.nameTransformation,
                                         !.textOptions = options.textOptions]
    /\ workTree' = [workTree EXCEPT !.written = {}]
    /\ workTreeBefore' = workTree'
    /\ pc' = "scan"
    /\ UNCHANGED <<toolVars, matchVars, setVars, findVars, externalTree, options, error, calls,
                   existingToTransformedPathMap>>

\* ScmPuncher._setExternalAndWorkEntries(), os.listdir() listing names in
\* some order.
SetExternalAndWorkEntries ==
    /\ pc = "scan"
    /\ \E order \in OrdersOf(PunchNames) :
          LET externalEntries_ ==
                  SortedFileSystemEntries(
                      FindEntries(externalTree, order,
                                  options.include, options.exclude))
              workEntries_ ==
                  SortedFileSystemEntries(
                      FindEntries(workTree, order, options.include,
                                  options.exclude \o options.workOnly))
              notComplying ==
                  WorkEntriesNotComplyingWithNameTransformationMap(
                      puncher.nameTransformation, workEntries_)
          IN IF /\ options.workOnly # <<>>
                /\ \E i \in 1..Len(externalEntries_) :
                       SetMatchesParts(options.workOnly, <<>>, externalEntries_[i].parts)
             THEN /\ puncher' = [puncher EXCEPT
                                    !.externalEntries = externalEntries_,
                                    !.assigned = @ \cup {"externalEntries"}]
                  /\ Raise(WorkOnlyError)
                  /\ UNCHANGED existingToTransformedPathMap
             ELSE /\ puncher' = [puncher EXCEPT
                                    !.externalEntries = externalEntries_,
                                    !.workEntries = workEntries_,
                                    !.assigned = @ \cup {"externalEntries", "workEntries"}]
                  /\ IF notComplying # {}
                     THEN /\ Raise("ScmNameTransformationError")
                          /\ existingToTransformedPathMap' = notComplying
                     ELSE /\ pc' = "align"
                          /\ UNCHANGED <<error, existingToTransformedPathMap>>
    /\ UNCHANGED <<toolVars, matchVars, setVars, findVars, workTree, externalTree, options,
                   calls, punches, workTreeBefore>>

\* ScmPuncher._setAddedModifiedRemovedItems()
SetAddedModifiedRemovedItems ==
    /\ pc = "align"
    /\ IF HasNameClash(puncher.nameTransformation, puncher.externalEntries)
       THEN /\ Raise("ScmNameClashError")
            /\ puncher' = [puncher EXCEPT
                              !.renamedExternalEntries =
                                  RenamedUntilNameClash(puncher.nameTransformation,
                                                        puncher.externalEntries),
                              !.renamedToOriginalExternalEntriesMap =
                                  RenamedToOriginal(puncher.nameTransformation,
                                                    puncher.externalEntries,
                                                    Len(RenamedUntilNameClash(
                                                            puncher.nameTransformation,
                                                            puncher.externalEntries))),
                              !.assigned = @ \cup RenamedFields]
       ELSE /\ \E schedule \in AddedModifiedRemovedItems(puncher.nameTransformation,
                                                            puncher.workEntries,
                                                            puncher.externalEntries) :
                  puncher' = [puncher EXCEPT
                                 !.renamedExternalEntries =
                                     SortedFileSystemEntries(
                                         RenamedExternalEntries(puncher.nameTransformation,
                                                                puncher.externalEntries)),
                                 !.renamedToOriginalExternalEntriesMap =
                                     RenamedToOriginal(puncher.nameTransformation,
                                                       puncher.externalEntries,
                                                       Len(puncher.externalEntries)),
                                 !.schedule = schedule,
                                 !.assigned = @ \cup RenamedFields
                                                \cup {"entriesToAdd", "entriesToTransfer",
                                                      "entriesToRemove"}
                                                \cup (IF schedule.last # NoEntry
                                                      THEN {"lastRemovedFolderEntry"}
                                                      ELSE {})]
            /\ pc' = "aligned"
            /\ UNCHANGED error
    /\ UNCHANGED <<toolVars, matchVars, setVars, findVars, workTree, externalTree, options,
                   calls, punches, workTreeBefore, existingToTransformedPathMap>>

\* punch(): ScmPuncher._setCopiedAndMovedEntries() unless the mode of moves
\* is "none".
SetCopiedAndMovedEntries ==
    /\ pc = "aligned"
    /\ \E schedule \in CopiedAndMovedUnlessNone(puncher.moveMode, puncher.schedule) :
          puncher' = [puncher EXCEPT
                         !.schedule = schedule,
                         !.assigned = @ \cup (IF puncher.moveMode # MoveNone
                                              THEN {"entriesToCopy", "entriesToMove"}
                                              ELSE {})]
    /\ pc' = "transfer"
    /\ UNCHANGED <<toolVars, matchVars, setVars, findVars, workTree, externalTree, options,
                   error, calls, punches, workTreeBefore, existingToTransformedPathMap>>

\* _applyChangedEntries(): the entries to transfer.
ApplyTransfer ==
    /\ pc = "transfer"
    /\ LET done == TransferredAll(workTree, puncher.nameTransformation,
                                  puncher.externalEntries,
                                  SortedEntries(puncher.schedule.transfer, FALSE))
       IN /\ workTree' = done.tree
          /\ IF done.ok THEN pc' = NextPhase("transfer") /\ UNCHANGED error
             ELSE Raise("EnvironmentError")
    /\ UNCHANGED <<toolVars, matchVars, setVars, findVars, externalTree, options, puncher,
                   calls, punches, workTreeBefore, existingToTransformedPathMap>>

\* _applyChangedEntries(): the entries to add, and scmWork.add() of them
\* all, which can end with a non-zero exit code.
ApplyAdd ==
    /\ pc = "add"
    /\ IF puncher.schedule.add = {}
       THEN /\ pc' = NextPhase("add")
            /\ UNCHANGED <<workTree, calls, error>>
       ELSE LET entriesToAdd == SortedEntries(puncher.schedule.add, FALSE)
                done == TransferredAll(workTree, puncher.nameTransformation,
                                       puncher.externalEntries, entriesToAdd)
            IN /\ workTree' = done.tree
               /\ IF done.ok
                  THEN /\ calls' = Append(calls, [op |-> "add",
                                                  paths |-> RelativePaths(entriesToAdd),
                                                  target |-> <<>>])
                       /\ \E exitCode \in {0, 1} :
                             IF exitCode = 0
                             THEN pc' = NextPhase("add") /\ UNCHANGED error
                             ELSE Raise(CommandError)
                  ELSE /\ Raise("EnvironmentError")
                       /\ UNCHANGED calls
    /\ UNCHANGED <<toolVars, matchVars, setVars, findVars, externalTree, options, puncher, punches,
                   workTreeBefore, existingToTransformedPathMap>>

\* _applyChangedEntries(): the entries to move, each by scmWork.move(),
\* which can end with a non-zero exit code, and a transfer.
ApplyMove ==
    /\ pc = "move"
    /\ \E failAt \in 0..Len(puncher.schedule.move) :
          LET done == MovedAll(workTree, puncher.nameTransformation,
                               puncher.externalEntries, puncher.schedule.move,
                               <<>>, failAt, 1)
          IN /\ workTree' = done.tree
             /\ calls' = calls \o done.calls
             /\ IF done.error = "none"
                THEN pc' = NextPhase("move") /\ UNCHANGED error
                ELSE Raise(done.error)
    /\ UNCHANGED <<toolVars, matchVars, setVars, findVars, externalTree, options, puncher, punches,
                   workTreeBefore, existingToTransformedPathMap>>

\* _applyChangedEntries(): scmWork.remove() of the entries to remove, which
\* can end with a non-zero exit code.
ApplyRemove ==
    /\ pc = "remove"
    /\ IF puncher.schedule.remove = {}
       THEN /\ pc' = NextPhase("remove")
            /\ UNCHANGED <<workTree, calls, error>>
       ELSE LET relativePathsToRemove ==
                    RelativePaths(SortedEntries(puncher.schedule.remove, FALSE))
            IN /\ calls' = Append(calls, [op |-> "remove",
                                          paths |-> relativePathsToRemove,
                                          target |-> <<>>])
               /\ \E exitCode \in {0, 1} :
                     IF exitCode = 0
                     THEN /\ workTree' = ScmRemove(workTree, relativePathsToRemove)
                          /\ pc' = NextPhase("remove")
                          /\ UNCHANGED error
                     ELSE /\ Raise(CommandError)
                          /\ UNCHANGED workTree
    /\ UNCHANGED <<toolVars, matchVars, setVars, findVars, externalTree, options, puncher, punches,
                   workTreeBefore, existingToTransformedPathMap>>

\* The finally clause of punch(): ScmPuncher._clear()
Clear ==
    /\ pc = "clear"
    /\ puncher' = Cleared(puncher)
    /\ pc' = IF error = "none" THEN "punched" ELSE "failed"
    /\ UNCHANGED <<toolVars, matchVars, setVars, findVars, workTree, externalTree, options,
                   error, calls, punches, workTreeBefore, existingToTransformedPathMap>>

\* scmWork.commit() of the work copy after a punch, which can end with a
\* non-zero exit code.
Commit ==
    /\ pc = "punched"
    /\ punches < MaxPunches
    /\ calls' = Append(calls, [op |-> "commit", paths |-> <<EmptyStr>>, target |-> <<>>])
    /\ \E exitCode \in {0, 1} :
          IF exitCode = 0 THEN pc' = "idle" /\ UNCHANGED error
          ELSE error' = CommandError /\ pc' = "failed"
    /\ UNCHANGED <<toolVars, matchVars, setVars, findVars, workTree, externalTree, options,
                   puncher, punches, workTreeBefore, existingToTransformedPathMap>>

Next ==
    \/ Scunch
    \/ SetExternalAndWorkEntries
    \/ SetAddedModifiedRemovedItems
    \/ SetCopiedAndMovedEntries
    \/ ApplyTransfer
    \/ ApplyAdd
    \/ ApplyMove
    \/ ApplyRemove
    \/ Clear
    \/ Commit

Spec == Init /\ [][Next]_vars

\* punch() is called again on the puncher of a punch that has ended, with
\* the arguments of the first call and without setting moveMode,
\* nameTransformation or textOptions before.
PunchAgain ==
    /\ pc \in {"punched", "failed"}
    /\ punches < MaxPunches
    /\ punches' = punches + 1
    /\ error' = "none"
    /\ existingToTransformedPathMap' = {}
    /\ workTree' = [workTree EXCEPT !.written = {}]
    /\ workTreeBefore' = workTree'
    /\ pc' = "scan"
    /\ UNCHANGED <<toolVars, matchVars, setVars, findVars, externalTree, options, puncher, calls>>

NextRepunch ==
    \/ Next
    \/ PunchAgain

SpecRepunch == Init /\ [][NextRepunch]_vars

---------------------------------------------------------------------------
(* The transfer of one file from the external folder to the work copy.     *)

\* The characters of the files, and the files of at most MaxContentLen
\* characters.
TextChars == {"a", " ", "\t", "\r", "\n"}

Contents == UNION {[1..n -> TextChars] : n \in 0..MaxContentLen}

\* The options of a transfer: None, or options with or without a pattern
\* for text files, the new line of DOS or Unix, tabs preserved or expanded
\* to TabSize columns, and trailing white space stripped or not.
TransferTextOptions ==
    {NoTextOptions} \cup
    {TextOptions(antPatternText, newLine_, tabSize_, stripTrailing) :
        antPatternText \in {<<>>, <<<<Str1("a")>>>>},
        newLine_ \in {Dos, Unix},
        tabSize_ \in {PreserveTabs, TabSize},
        stripTrailing \in BOOLEAN}

\* The files of the external folder differ in the time of their
\* modification and their mode; the file of the work copy does not exist or
\* is an older file that can be written.
SourceFiles ==
    {FileOf(content_, stat_[1], stat_[2]) :
        content_ \in Contents, stat_ \in {<<1, "r--r--r--">>, <<2, "rwxr-xr-x">>}}

TargetFiles == {NoFile, FileOf(<<"a", "\n">>, 1, "rw-rw-rw-")}

InitText ==
    /\ pc = "copy"
    /\ patternItems = <<>>
    /\ textItems = <<>>
    /\ matchResult = FALSE
    /\ includePatterns = <<>>
    /\ excludePatterns = <<>>
    /\ setResult = FALSE
    /\ scanTree = EmptyTree
    /\ listOrder = <<>>
    /\ addFolders = FALSE
    /\ found = <<>>
    /\ workTree = EmptyTree
    /\ externalTree = EmptyTree
    /\ options = DefaultOptions
    /\ puncher = ClearedPuncher
    /\ error = "none"
    /\ calls = <<>>
    /\ punches = 0
    /\ workTreeBefore = EmptyTree
    /\ existingToTransformedPathMap = {}
    /\ sourceFile \in SourceFiles
    /\ targetFile \in TargetFiles
    /\ textOptions \in TransferTextOptions
    /\ entryToTransferParts \in {<<Str1("a")>>, <<Str1("A")>>}
    /\ linesRead = 0
    /\ BundleIdle
    /\ MainIdle

\* _transferEntryFromExternalToWork(): textOptions and
\* textOptions.isText(entryToTransfer)
TransfersAsText ==
    /\ textOptions # NoTextOptions
    /\ IsText(textOptions, entryToTransferParts)

\* open(path, "wb") of a file: it is created, or emptied keeping its mode.
OpenedForWriting(file) ==
    FileOf(<<>>, Now, IF file = NoFile THEN CreatedMode ELSE file.stat.mode)

\* A copy that leaves the times and the mode of the target as they are.
KeepStat(source, target) == target

\* shutil.copystat(): the target gets the times and the mode of the source.
CopyStat(source, target) == [target EXCEPT !.stat = source.stat]

\* _transferEntryFromExternalToWork() of a file that is not text:
\* _copyBinaryFile(), which is shutil.copy2(), the copy of the content and
\* of the stat.
CopyBinaryFile ==
    /\ pc = "copy"
    /\ ~TransfersAsText
    /\ targetFile' = CopyStat(sourceFile, [OpenedForWriting(targetFile) EXCEPT
                                              !.content = sourceFile.content])
    /\ pc' = "copied"
    /\ UNCHANGED <<matchVars, setVars, findVars, punchVars, bundleVars, mainVars, sourceFile, textOptions,
                   entryToTransferParts, linesRead>>

\* _transferEntryFromExternalToWork() of a text file: _copyTextFile()
\* opens the source file and the target file.
OpenTextFiles ==
    /\ pc = "copy"
    /\ TransfersAsText
    /\ targetFile' = OpenedForWriting(targetFile)
    /\ linesRead' = 0
    /\ pc' = "lines"
    /\ UNCHANGED <<matchVars, setVars, findVars, punchVars, bundleVars, mainVars, sourceFile, textOptions,
                   entryToTransferParts>>

\* _copyTextFile(): the next line of the source file is converted and
\* written.
WriteConvertedLine ==
    /\ pc = "lines"
    /\ linesRead < Len(LinesOf(sourceFile.content))
    /\ LET line == LinesOf(sourceFile.content)[linesRead + 1]
           lineToWrite == ConvertedLine(textOptions, line)
       IN targetFile' = [targetFile EXCEPT !.content = @ \o lineToWrite]
    /\ linesRead' = linesRead + 1
    /\ UNCHANGED <<pc, matchVars, setVars, findVars, punchVars, bundleVars, mainVars, sourceFile, textOptions,
                   entryToTransferParts>>

\* _copyTextFile(): after the last line the files are closed and
\* shutil.copystat() is called.
CloseTextFiles ==
    /\ pc = "lines"
    /\ linesRead = Len(LinesOf(sourceFile.content))
    /\ targetFile' = CopyStat(sourceFile, targetFile)
    /\ pc' = "copied"
    /\ UNCHANGED <<matchVars, setVars, findVars, punchVars, bundleVars, mainVars, sourceFile, textOptions,
                   entryToTransferParts, linesRead>>

NextText ==
    \/ CopyBinaryFile
    \/ OpenTextFiles
    \/ WriteConvertedLine
    \/ CloseTextFiles

SpecText == InitText /\ [][NextText]_vars

---------------------------------------------------------------------------
(* _tools.bundledPathsToRun()                                              *)

\* No pattern is matched, no folder is scanned and nothing is punched.
PunchIdle ==
    /\ patternItems = <<>>
    /\ textItems = <<>>
    /\ matchResult = FALSE
    /\ includePatterns = <<>>
    /\ excludePatterns = <<>>
    /\ setResult = FALSE
    /\ scanTree = EmptyTree
    /\ listOrder = <<>>
    /\ addFolders = FALSE
    /\ found = <<>>
    /\ workTree = EmptyTree
    /\ externalTree = EmptyTree
    /\ options = DefaultOptions
    /\ puncher = ClearedPuncher
    /\ error = "none"
    /\ calls = <<>>
    /\ punches = 0
    /\ workTreeBefore = EmptyTree
    /\ existingToTransformedPathMap = {}

\* The paths: strings of at most MaxPathLen characters, "a" counted once
\* and "." twice by escapedLength(); at most MaxPaths of them.
PathTexts == UNION {[1..n -> {"a", "."}] : n \in 0..MaxPathLen}

PathLists == UNION {[1..n -> PathTexts] : n \in 0..MaxPaths}

\* The command alone, or with an option.
BaseCommands == {<<Str1("c")>>, <<Str1("c"), Str1(".")>>}

CommandLengths == MinCommandLength..MaxCommandLength

InitBundle ==
    /\ pc = "bundle"
    /\ PunchIdle
    /\ TextIdle
    /\ MainIdle
    /\ baseCommandAndOptions \in BaseCommands
    /\ pathsToBundle \in PathLists
    /\ maxCommandLenth \in CommandLengths
    /\ bundling = NewGenerator
    /\ pathIndex = 0

\* bundledPathsToRun() up to its loop: EnvironmentError is raised when no
\* path of one character goes with the command.
CheckBaseCommand ==
    /\ pc = "bundle"
    /\ IF MaxPathsLength(baseCommandAndOptions, maxCommandLenth)
             < 1 + MinBaseCommandAndOptionsLength
       THEN /\ bundling' = [bundling EXCEPT !.raised = TRUE]
            /\ pc' = "raised"
       ELSE /\ pc' = "paths"
            /\ UNCHANGED bundling
    /\ UNCHANGED <<matchVars, setVars, findVars, punchVars, textVars, mainVars,
                   baseCommandAndOptions, pathsToBundle, maxCommandLenth, pathIndex>>

\* One run of the body of the while loop of bundledPathsToRun().
AppendPath ==
    /\ pc = "paths"
    /\ pathIndex < Len(pathsToBundle)
    /\ bundling' = WithPathToAppend(bundling, pathsToBundle[pathIndex + 1],
                                    MaxPathsLength(baseCommandAndOptions, maxCommandLenth))
    /\ IF bundling'.raised
       THEN pc' = "raised" /\ UNCHANGED pathIndex
       ELSE pc' = "paths" /\ pathIndex' = pathIndex + 1
    /\ UNCHANGED <<matchVars, setVars, findVars, punchVars, textVars, mainVars,
                   baseCommandAndOptions, pathsToBundle, maxCommandLenth>>

\* The end of bundledPathsToRun(): the last bundle is yielded.
YieldLastBundle ==
    /\ pc = "paths"
    /\ pathIndex = Len(pathsToBundle)
    /\ bundling' = IF bundling.result # <<>>
                   THEN [bundling EXCEPT !.yielded = Append(@, bundling.result),
                                         !.result = <<>>, !.resultLength = 0]
                   ELSE bundling
    /\ pc' = "bundled"
    /\ UNCHANGED <<matchVars, setVars, findVars, punchVars, textVars, mainVars,
                   baseCommandAndOptions, pathsToBundle, maxCommandLenth, pathIndex>>

NextBundle ==
    \/ CheckBaseCommand
    \/ AppendPath
    \/ YieldLastBundle

SpecBundle == InitBundle /\ [][NextBundle]_vars

---------------------------------------------------------------------------
(* main(): the actions before the punch, the punch and the actions after   *)
(* it. The punch itself is the subject of Spec; here it ends with or       *)
(* without an error and leaves the entries of the work copy changed or     *)
(* not.                                                                    *)

StatusEntry(status_, propertiesStatus_) ==
    [status |-> status_, propertiesStatus |-> propertiesStatus_]

\* What svn status reports for an entry, and for the work copy: at most
\* MaxStatusItems entries.
StatusEntries ==
    {StatusEntry(SvnStatusAsScmStatus(item), SvnStatusAsScmStatus(props)) :
        item \in {"normal", "ignored", "none", "modified", "unversioned", "external",
                  "missing"},
        props \in {"none", "normal", "modified"}}

StatusLists == UNION {[1..n -> StatusEntries] : n \in 0..MaxStatusItems}

\* The values of --before and of --after that parsedOptions() accepts, but
\* for checkout: no action twice, reset before any other action, purge
\* after any other action.
BeforeActions ==
    {<<ActionCheck>>, <<ActionNone>>, <<ActionReset>>, <<ActionUpdate>>,
     <<ActionReset, ActionCheck>>, <<ActionUpdate, ActionCheck>>,
     <<ActionCheck, ActionUpdate>>}

AfterActions ==
    {<<ActionNone>>, <<ActionCommit>>, <<ActionPurge>>, <<ActionCommit, ActionPurge>>}

InitMain ==
    /\ pc = "main"
    /\ PunchIdle
    /\ TextIdle
    /\ BundleIdle
    /\ statusItems \in StatusLists
    /\ actionsToPerformBeforePunching \in BeforeActions
    /\ actionsToPerformAfterPunching \in AfterActions
    /\ actionIndex = 0
    /\ performed = <<>>
    /\ exitCodeOfMain = 0
    /\ exitError = "none"

\* What main() has called: an action, the punch or the making of scmWork,
\* and whether it ended with an error (1) or not (0).
Called(name, failed) == [action |-> name, exitCode |-> failed]

\* An exception ends the try block: main() returns (1, error).
ExitWith(raisedError) ==
    /\ exitCodeOfMain' = 1
    /\ exitError' = raisedError
    /\ pc' = "exited"
    /\ UNCHANGED actionIndex

\* The next action of the loop is up.
NextAction ==
    /\ actionIndex' = actionIndex + 1
    /\ UNCHANGED <<pc, exitCodeOfMain, exitError>>

\* The action that the loop before the punch is at.
IsBefore(action) ==
    /\ pc = "before"
    /\ actionIndex < Len(actionsToPerformBeforePunching)
    /\ actionsToPerformBeforePunching[actionIndex + 1] = action

\* The action that the loop after the punch is at.
IsAfter(action) ==
    /\ pc = "after"
    /\ actionIndex < Len(actionsToPerformAfterPunching)
    /\ actionsToPerformAfterPunching[actionIndex + 1] = action

\* createScmWork(): the folder is a work copy, or ScmError is raised.
CreateScmWork ==
    /\ pc = "main"
    /\ \E failed \in {0, 1} :
          /\ performed' = Append(performed, Called("createScmWork", failed))
          /\ IF failed = 1 THEN ExitWith("ScmError")
             ELSE pc' = "before" /\ UNCHANGED <<actionIndex, exitCodeOfMain, exitError>>
    /\ UNCHANGED <<matchVars, setVars, findVars, punchVars, textVars, bundleVars,
                   statusItems, actionsToPerformBeforePunching,
                   actionsToPerformAfterPunching>>

\* scmWork.check(): svn status fails, or ScmPendingChangesError is raised
\* for the first entry that is resetable.
MainCheck ==
    /\ IsBefore(ActionCheck)
    /\ \E failed \in {0, 1} :
          /\ performed' = Append(performed, Called(ActionCheck, failed))
          /\ IF failed = 1 THEN ExitWith("ScmError")
             ELSE IF \E i \in 1..Len(statusItems) : IsResetable(statusItems[i])
                 THEN ExitWith("ScmPendingChangesError")
             ELSE NextAction
    /\ UNCHANGED <<matchVars, setVars, findVars, punchVars, textVars, bundleVars,
                   statusItems, actionsToPerformBeforePunching,
                   actionsToPerformAfterPunching>>

\* The status of an entry after svn revert, for the entries that reset()
\* does not remove.
Reverted(statusEntry) ==
    IF statusEntry.status = Ignored THEN statusEntry
    ELSE StatusEntry(Normal,
                     IF statusEntry.propertiesStatus = NoStatus THEN NoStatus ELSE Normal)

\* scmWork.reset(): svn cleanup and svn revert, then the entries that are
\* still resetable, those not under version control, are removed; or a
\* command fails.
MainReset ==
    /\ IsBefore(ActionReset)
    /\ \E failed \in {0, 1} :
          /\ performed' = Append(performed, Called(ActionReset, failed))
          /\ IF failed = 1 THEN ExitWith("ScmError") /\ UNCHANGED statusItems
             ELSE /\ statusItems' =
                         LET kept == SelectSeq(statusItems,
                                         LAMBDA e : e.status \notin {Unversioned, External})
                         IN [i \in 1..Len(kept) |-> Reverted(kept[i])]
                  /\ NextAction
    /\ UNCHANGED <<matchVars, setVars, findVars, punchVars, textVars, bundleVars,
                   actionsToPerformBeforePunching, actionsToPerformAfterPunching>>

\* scmWork.update(): svn update leaves the changes of the work copy as
\* they are or in conflict with the changes it has fetched, or it fails.
MainUpdate ==
    /\ IsBefore(ActionUpdate)
    /\ \E failed \in {0, 1} :
          /\ performed' = Append(performed, Called(ActionUpdate, failed))
          /\ IF failed = 1 THEN ExitWith("ScmError") /\ UNCHANGED statusItems
             ELSE /\ \E conflicts \in BOOLEAN :
                         statusItems' =
                             [i \in 1..Len(statusItems) |->
                                 IF conflicts /\ statusItems[i].status = Modified
                                 THEN [statusItems[i] EXCEPT !.status = Conflicted]
                                 ELSE statusItems[i]]
                  /\ NextAction
    /\ UNCHANGED <<matchVars, setVars, findVars, punchVars, textVars, bundleVars,
                   actionsToPerformBeforePunching, actionsToPerformAfterPunching>>

\* The action 'none' before the punch.
MainNoneBefore ==
    /\ IsBefore(ActionNone)
    /\ NextAction
    /\ UNCHANGED <<matchVars, setVars, findVars, punchVars, textVars, bundleVars,
                   statusItems, actionsToPerformBeforePunching,
                   actionsToPerformAfterPunching, performed>>

\* scunch() after the last action before the punch: it ends with one of
\* the errors of punch() or without, and has changed entries of the work
\* copy or not.
MainScunch ==
    /\ pc = "before"
    /\ actionIndex = Len(actionsToPerformBeforePunching)
    /\ \E raisedError \in {"none", "ScmError", "ScmNameTransformationError",
                            "ScmNameClashError", "EnvironmentError"} :
          /\ performed' = Append(performed,
                                 Called("scunch", IF raisedError = "none" THEN 0 ELSE 1))
          /\ IF raisedError = "none"
             THEN /\ pc' = "after"
                  /\ actionIndex' = 0
                  /\ UNCHANGED <<exitCodeOfMain, exitError>>
             ELSE ExitWith(raisedError)
    /\ \E changes \in BOOLEAN :
          statusItems' = [i \in 1..Len(statusItems) |->
                             IF changes /\ statusItems[i].status = Normal
                             THEN [statusItems[i] EXCEPT !.status = Modified]
                             ELSE statusItems[i]]
    /\ UNCHANGED <<matchVars, setVars, findVars, punchVars, textVars, bundleVars,
                   actionsToPerformBeforePunching, actionsToPerformAfterPunching>>

\* scmWork.commit(): the changes are committed, or svn commit fails.
MainCommit ==
    /\ IsAfter(ActionCommit)
    /\ \E failed \in {0, 1} :
          /\ performed' = Append(performed, Called(ActionCommit, failed))
          /\ IF failed = 1 THEN ExitWith("ScmError") /\ UNCHANGED statusItems
             ELSE /\ statusItems' =
                         [i \in 1..Len(statusItems) |->
                             IF statusItems[i].status = Modified
                             THEN [statusItems[i] EXCEPT !.status = Normal]
                             ELSE statusItems[i]]
                  /\ NextAction
    /\ UNCHANGED <<matchVars, setVars, findVars, punchVars, textVars, bundleVars,
                   actionsToPerformBeforePunching, actionsToPerformAfterPunching>>

\* scmWork.purge(): the folder of the work copy is removed, or removing it
\* fails.
MainPurge ==
    /\ IsAfter(ActionPurge)
    /\ \E failed \in {0, 1} :
          /\ performed' = Append(performed, Called(ActionPurge, failed))
          /\ IF failed = 1 THEN ExitWith("EnvironmentError") /\ UNCHANGED statusItems
             ELSE statusItems' = <<>> /\ NextAction
    /\ UNCHANGED <<matchVars, setVars, findVars, punchVars, textVars, bundleVars,
                   actionsToPerformBeforePunching, actionsToPerformAfterPunching>>

\* The action 'none' after the punch.
MainNoneAfter ==
    /\ IsAfter(ActionNone)
    /\ NextAction
    /\ UNCHANGED <<matchVars, setVars, findVars, punchVars, textVars, bundleVars,
                   statusItems, actionsToPerformBeforePunching,
                   actionsToPerformAfterPunching, performed>>

\* The end of the try block: exitCode = 0, and main() returns (0, None).
MainExit ==
    /\ pc = "after"
    /\ actionIndex = Len(actionsToPerformAfterPunching)
    /\ exitCodeOfMain' = 0
    /\ pc' = "exited"
    /\ UNCHANGED <<matchVars, setVars, findVars, punchVars, textVars, bundleVars,
                   statusItems, actionsToPerformBeforePunching,
                   actionsToPerformAfterPunching, actionIndex, performed, exitError>>

NextMain ==
    \/ CreateScmWork
    \/ MainCheck
    \/ MainReset
    \/ MainUpdate
    \/ MainNoneBefore
    \/ MainScunch
    \/ MainCommit
    \/ MainPurge
    \/ MainNoneAfter
    \/ MainExit

SpecMain == InitMain /\ [][NextMain]_vars

---------------------------------------------------------------------------
(* Claims about the puncher.                                               *)

\* The parts of the entries of a list or a set of entries.
PartsOf(entries) == {e.parts : e \in entries}

\* The parts of the entries of the work copy that the patterns of the
\* punch select, and that the pattern of work only entries does not match.
SelectedWorkParts ==
    PartsOf(SeqRange(FindEntries(workTree, SortedCharsOrder, options.include,
                                 options.exclude \o options.workOnly)))

\* The parts, after the name transformation, of the entries of the
\* external folder that the patterns of the punch select.
SelectedExternalParts ==
    {CreateTransformedFileSystemEntry(options.nameTransformation, e).parts :
        e \in SeqRange(FindEntries(externalTree, SortedCharsOrder, options.include,
                                   options.exclude))}

\* C1: After punch() completes without error, the entry paths of the work
\* copy that the include and exclude patterns select (and the work only
\* pattern does not match) are the name-transformed entry paths of the
\* external tree that the same patterns select.
C1_WorkEqualsExternalAfterPunch ==
    pc = "punched" => SelectedWorkParts = SelectedExternalParts

\* The calls that the SCM got after the last commit.
RECURSIVE CallsAfterCommit(_)
CallsAfterCommit(made) ==
    IF made = <<>> THEN <<>>
    ELSE IF made[Len(made)].op = "commit" THEN <<>>
    ELSE Append(CallsAfterCommit(SubSeq(made, 1, Len(made) - 1)), made[Len(made)])

\* C2: After a punch without error and a commit, punching the same external
\* tree again with the same options schedules no add, no remove and no
\* move, and calls neither add nor move nor remove of the SCM.
C2_SecondPunchSchedulesNoChange ==
    punches = 2 =>
        /\ puncher.schedule.add = {}
        /\ puncher.schedule.remove = {}
        /\ puncher.schedule.move = <<>>
        /\ \A i \in 1..Len(CallsAfterCommit(calls)) :
               CallsAfterCommit(calls)[i].op \notin {"add", "move", "remove"}

\* The renamed external entries that the alignment compared the work
\* entries with.
AlignedExternalParts ==
    PartsOf(SeqRange(RenamedExternalEntries(puncher.nameTransformation,
                                            puncher.externalEntries)))

AlignedWorkParts == PartsOf(SeqRange(puncher.workEntries))

\* parts is the path of an entry below the folder of path folderParts.
IsBelowFolder(parts, folderParts) ==
    /\ IsFolderPath(folderParts)
    /\ parts # folderParts
    /\ IsAtOrBelow(NamesOf(parts), NamesOf(folderParts))

\* C9: After the alignment every path in both lists is scheduled for
\* transfer, every path only in the external list for add, every path only
\* in the work list for remove unless it is below a folder scheduled for
\* remove; no path is scheduled for more than one of add, remove, transfer.
C9_ClassificationAfterAlignment ==
    pc = "aligned" =>
        LET toAdd == PartsOf(puncher.schedule.add)
            toRemove == PartsOf(puncher.schedule.remove)
            toTransfer == PartsOf(puncher.schedule.transfer)
        IN /\ \A parts \in AlignedWorkParts \cap AlignedExternalParts :
                 parts \in toTransfer
           /\ \A parts \in AlignedExternalParts \ AlignedWorkParts :
                 parts \in toAdd
           /\ \A parts \in AlignedWorkParts \ AlignedExternalParts :
                 \/ parts \in toRemove
                 \/ \E folderParts \in toRemove : IsBelowFolder(parts, folderParts)
           /\ toAdd \cap toRemove = {}
           /\ toAdd \cap toTransfer = {}
           /\ toRemove \cap toTransfer = {}

\* A path of each class has been aligned.
C9_Witness ==
    /\ pc = "aligned"
    /\ AlignedWorkParts \cap AlignedExternalParts # {}
    /\ AlignedExternalParts \ AlignedWorkParts # {}
    /\ AlignedWorkParts \ AlignedExternalParts # {}

\* C10: After the alignment the entries to remove never hold both a folder
\* and an entry below that folder.
C10_NoRemoveBelowRemovedFolder ==
    pc = "aligned" =>
        \A folder, entry \in puncher.schedule.remove :
            ~IsBelowFolder(entry.parts, folder.parts)

\* The files among entries that have the name of entry.
FilesNamedLike(entries, entry) ==
    {e \in entries : e.kind = File /\ EntryName(e) = EntryName(entry)}

\* The pairs of a work file and a renamed external file at different paths
\* that have a name which no other work file and no other external file of
\* the aligned lists has.
LoneFilePairs ==
    LET work == SeqRange(puncher.workEntries)
        external == SeqRange(puncher.renamedExternalEntries)
    IN {pair \in work \X external :
           /\ pair[1].kind = File
           /\ pair[2].kind = File
           /\ EntryName(pair[1]) = EntryName(pair[2])
           /\ pair[1].parts # pair[2].parts
           /\ FilesNamedLike(work, pair[1]) = {pair[1]}
           /\ FilesNamedLike(external, pair[2]) = {pair[2]}}

\* C11: With the mode of moves "name", a file that the work list has only
\* at path p and the external list has only at another path q is scheduled
\* for exactly one move, from p to q, and neither p for remove nor q for add.
C11_LoneFileIsMovedOnce ==
    (pc = "transfer" /\ puncher.moveMode = MoveName) =>
        \A pair \in LoneFilePairs :
            LET entriesToMove == puncher.schedule.move
            IN /\ Cardinality({i \in 1..Len(entriesToMove) : entriesToMove[i] = pair}) = 1
               /\ \A i \in 1..Len(entriesToMove) :
                      (entriesToMove[i][1] = pair[1] \/ entriesToMove[i][2] = pair[2])
                          => entriesToMove[i] = pair
               /\ pair[1] \notin puncher.schedule.remove
               /\ pair[2] \notin puncher.schedule.add

\* The move of such a file has been scheduled.
C11_Witness ==
    /\ pc = "transfer"
    /\ puncher.moveMode = MoveName
    /\ LoneFilePairs # {}

\* C12: With the mode of moves "none" no move is ever scheduled and the SCM
\* is never called to move; a file that the work list has only at path p
\* and the external list has only at another path q is scheduled for the
\* remove of p and the add of q.
C12_NoMoveWithMoveModeNone ==
    options.moveMode = MoveNone =>
        /\ puncher.schedule.move = <<>>
        /\ \A i \in 1..Len(calls) : calls[i].op # "move"
        /\ pc = "transfer" =>
               \A pair \in LoneFilePairs :
                   /\ pair[1] \in puncher.schedule.remove
                   /\ pair[2] \in puncher.schedule.add
                   /\ pair[1] \notin puncher.schedule.add \cup puncher.schedule.transfer
                   /\ pair[2] \notin puncher.schedule.remove \cup puncher.schedule.transfer

\* Such a file has been scheduled with the mode of moves "none".
C12_Witness ==
    /\ pc = "transfer"
    /\ options.moveMode = MoveNone
    /\ LoneFilePairs # {}

\* The punch of the work copy workTreeBefore has ended.
PunchEnded == pc \in {"punched", "failed"}

\* The entries that the work copy held when the punch began and that the
\* patterns of the punch select.
WorkEntriesBefore ==
    SeqRange(FindEntries(workTreeBefore, SortedCharsOrder, options.include,
                         options.exclude \o options.workOnly))

\* The pairs of the path and the transformed path of the work entries
\* whose path the name transformation changes.
ChangedWorkPaths ==
    {<<e.parts, CreateTransformedFileSystemEntry(options.nameTransformation, e).parts>> :
        e \in {w \in WorkEntriesBefore :
                  CreateTransformedFileSystemEntry(options.nameTransformation, w).parts
                  # w.parts}}

\* C13 as stated: with a name transformation, punch() raises
\* ScmNameTransformationError if and only if the transformation changes the
\* path of a work entry, and the map of the error holds exactly these
\* entries, each with its transformed path.
C13_NameTransformationErrorIffChanged ==
    (PunchEnded /\ options.nameTransformation # Preserve) =>
        /\ error = "ScmNameTransformationError" <=> ChangedWorkPaths # {}
        /\ error = "ScmNameTransformationError" =>
               existingToTransformedPathMap = ChangedWorkPaths

\* C13 amended: the same, unless punch() has raised the ScmError of an
\* external entry that matches the work only pattern, which it checks
\* before it looks at the work entries.
C13_NameTransformationErrorIffChangedUnlessWorkOnly ==
    (PunchEnded /\ options.nameTransformation # Preserve /\ error # WorkOnlyError) =>
        /\ error = "ScmNameTransformationError" <=> ChangedWorkPaths # {}
        /\ error = "ScmNameTransformationError" =>
               existingToTransformedPathMap = ChangedWorkPaths

\* A punch has ended with the error for some but not all work entries.
C13_Witness ==
    /\ pc = "failed"
    /\ error = "ScmNameTransformationError"
    /\ existingToTransformedPathMap # {}
    /\ \E e \in WorkEntriesBefore :
           \A pair \in existingToTransformedPathMap : pair[1] # e.parts

\* The entries of the external folder that the patterns of the punch select.
SelectedExternalEntries ==
    SeqRange(FindEntries(externalTree, SortedCharsOrder, options.include,
                         options.exclude))

\* The path of an external entry after the name transformation, as the
\* names from the external folder down to the entry.
TransformedPath(entry) ==
    NamesOf(CreateTransformedFileSystemEntry(options.nameTransformation, entry).parts)

\* C14: punch() raises ScmNameClashError whenever two distinct external
\* entries have the same path after the name transformation, and never
\* when the transformed paths of the external entries are pairwise distinct.
C14_NameClashErrorIffSameTransformedPath ==
    PunchEnded =>
        (error = "ScmNameClashError" <=>
            \E some, other \in SelectedExternalEntries :
                some # other /\ TransformedPath(some) = TransformedPath(other))

\* The path of the entry, as the names from the scanned folder down to the
\* entry, matches the work only pattern of the punch.
MatchesWorkOnly(entry) ==
    /\ options.workOnly # <<>>
    /\ SetMatchesParts(options.workOnly, <<>>, NamesOf(entry.parts))

\* C15: If an entry of the external folder matches the work only pattern,
\* punch() fails with the ScmError of work only entries; and no entry that
\* matches the work only pattern is ever in the list of work entries.
C15_WorkOnlyEntriesAreRefusedAndHidden ==
    /\ (PunchEnded /\ \E entry \in SelectedExternalEntries : MatchesWorkOnly(entry))
           => error = WorkOnlyError
    /\ \A i \in 1..Len(puncher.workEntries) : ~MatchesWorkOnly(puncher.workEntries[i])

\* The errors of the checks that punch() makes before it changes anything.
PreconditionErrors == {WorkOnlyError, "ScmNameTransformationError", "ScmNameClashError"}

\* C16: When punch() has failed with the error of a work only entry in the
\* external folder, of a name transformation or of a name clash, the work
\* copy is as it was when the punch began, no file of it has been written
\* and the SCM has not been called.
C16_PreconditionErrorLeavesWorkCopyUnchanged ==
    (PunchEnded /\ error \in PreconditionErrors) =>
        /\ workTree = workTreeBefore
        /\ workTree.written = {}
        /\ CallsAfterCommit(calls) = <<>>

\* A punch of a work copy with files has failed with a name clash.
C16_Witness ==
    /\ PunchEnded
    /\ error = "ScmNameClashError"
    /\ workTree.files # {}
    /\ externalTree.files # {}

\* C17: After a punch without error every file that the work copy held
\* when the punch began and that the work only pattern matches still
\* exists, whether or not the external folder has the folder it is in.
C17_WorkOnlyFilesSurvivePunch ==
    pc = "punched" =>
        \A names \in workTreeBefore.files :
            (options.workOnly # <<>> /\ SetMatchesParts(options.workOnly, <<>>, names))
                => names \in workTree.files

\* C18: The files that the work copy held when the punch began and that
\* the include and exclude patterns of the punch do not select are neither
\* removed nor written by the punch, whether or not the external folder
\* has them or the folders they are in.
C18_UnselectedFilesArePreserved ==
    \A names \in workTreeBefore.files :
        ~SetMatchesParts(options.include, options.exclude, names)
            => (names \in workTree.files /\ names \notin workTree.written)

\* The phases of the apply step that call the SCM, in the order of the claim.
CallPhases == <<"add", "move", "remove">>

\* The number of the phase that makes calls of operation op.
PhaseOf(op) == CHOOSE n \in 1..Len(CallPhases) : CallPhases[n] = op

\* The operations of the calls that the SCM got since the punch began.
OpsOfPunch ==
    [i \in 1..Len(CallsAfterCommit(calls)) |-> CallsAfterCommit(calls)[i].op]

\* C19: The apply step transfers, then adds, then moves, then removes: the
\* SCM gets no call before the transfers are done, no move before the add,
\* no remove before the last move and its copy, and so its calls are in
\* the order add, move, remove.
C19_PhasesInFixedOrder ==
    /\ \A i, j \in 1..Len(OpsOfPunch) :
           i < j => PhaseOf(OpsOfPunch[i]) <= PhaseOf(OpsOfPunch[j])
    /\ pc \in {"scan", "align", "aligned", "transfer", "add"} => OpsOfPunch = <<>>
    /\ pc = "move" => \A i \in 1..Len(OpsOfPunch) : OpsOfPunch[i] = "add"
    /\ pc = "remove" => \A i \in 1..Len(OpsOfPunch) : OpsOfPunch[i] \in {"add", "move"}
    /\ Cardinality({i \in 1..Len(OpsOfPunch) : OpsOfPunch[i] \in {"add", "remove"}})
           = Cardinality({OpsOfPunch[i] : i \in 1..Len(OpsOfPunch)} \cap {"add", "remove"})

\* A punch has added, moved and removed.
C19_Witness ==
    /\ pc = "clear"
    /\ error = "none"
    /\ {OpsOfPunch[i] : i \in 1..Len(OpsOfPunch)} = {"add", "move", "remove"}

\* C20: When punch() has ended, with or without error, the puncher holds
\* no external and no work entries, schedules nothing to add, transfer,
\* move or remove, has no last removed folder, and holds neither renamed
\* external entries nor their map to the original entries.
C20_TransientStateIsClearedOnExit ==
    PunchEnded =>
        /\ puncher.externalEntries = <<>>
        /\ puncher.workEntries = <<>>
        /\ puncher.schedule = EmptySchedule
        /\ puncher.renamedExternalEntries = <<>>
        /\ puncher.renamedToOriginalExternalEntriesMap = {}
        /\ puncher.assigned = {}

\* C27: Every pair that _setCopiedAndMovedEntries() records as a move is a
\* pair of files of the same name, the source taken out of the entries to
\* remove and the target out of the entries to add; no folder is moved, and
\* no two pairs are recorded for one file name.
C27_MovePairsAreFilesOfOneName ==
    [][SetCopiedAndMovedEntries =>
          LET entriesToMove == puncher'.schedule.move
          IN /\ \A i \in 1..Len(entriesToMove) :
                    /\ entriesToMove[i][1].kind = File
                    /\ entriesToMove[i][2].kind = File
                    /\ EntryName(entriesToMove[i][1]) = EntryName(entriesToMove[i][2])
                    /\ entriesToMove[i][1] \in puncher.schedule.remove
                    /\ entriesToMove[i][1] \notin puncher'.schedule.remove
                    /\ entriesToMove[i][2] \in puncher.schedule.add
                    /\ entriesToMove[i][2] \notin puncher'.schedule.add
             /\ \A i, j \in 1..Len(entriesToMove) :
                    i # j => EntryName(entriesToMove[i][1]) # EntryName(entriesToMove[j][1])
             /\ puncher'.schedule.remove \subseteq puncher.schedule.remove
             /\ puncher'.schedule.add \subseteq puncher.schedule.add
             /\ Cardinality(puncher.schedule.remove)
                    = Cardinality(puncher'.schedule.remove) + Len(entriesToMove)
             /\ Cardinality(puncher.schedule.add)
                    = Cardinality(puncher'.schedule.add) + Len(entriesToMove)]_vars

\* One move has been recorded for a name that a second file to remove has.
C27_Witness ==
    /\ pc = "transfer"
    /\ Len(puncher.schedule.move) = 1
    /\ \E e \in puncher.schedule.remove :
           /\ e.kind = File
           /\ EntryName(e) = EntryName(puncher.schedule.move[1][1])

\* The calls of scmWork.move() among calls that ended without error: all
\* but the last call when it is the one that failed.
CompletedMoves(made, failed) ==
    {made[i] : i \in {k \in 1..Len(made) :
                         made[k].op = "move" /\ (failed => k < Len(made))}}

\* C28: When a call of the SCM fails in the apply step, punch() ends with
\* that error: the failed call is the last call, nothing is called and
\* nothing changes in the work copy after it, and what the apply step did
\* before it remains: the folders made, the files written, the files moved.
C28_FailedCallEndsApplyStep ==
    [][/\ (error = "none" /\ error' = CommandError) =>
              /\ pc' \in {"clear", "failed"}
              /\ Len(calls') > Len(calls)
              /\ SubSeq(calls', 1, Len(calls)) = calls
              /\ workTree.folders \subseteq workTree'.folders
              /\ workTree.written \subseteq workTree'.written
              /\ \A call \in CompletedMoves(CallsAfterCommit(calls'), TRUE) :
                     /\ Append(call.target, EntryName([parts |-> call.paths[1]]))
                            \in workTree'.files
                     /\ NamesOf(call.paths[1]) \notin workTree'.files
              /\ calls'[Len(calls')].op = "add" =>
                     \A i \in 1..Len(calls'[Len(calls')].paths) :
                         NamesOf(calls'[Len(calls')].paths[i]) \in Paths(workTree')
       /\ error = CommandError => UNCHANGED <<workTree, calls, error>>]_vars

\* The call to add has failed after files were written, with entries to
\* remove still scheduled.
C28_Witness ==
    /\ pc = "clear"
    /\ error = CommandError
    /\ calls[Len(calls)].op = "add"
    /\ workTree.written # {}
    /\ puncher.schedule.remove # {}

\* parts is the path of an entry in the folder of path folderParts, at any
\* depth.
IsInsideFolder(parts, folderParts) ==
    /\ IsFolderPath(folderParts)
    /\ Len(NamesOf(parts)) > Len(NamesOf(folderParts))
    /\ IsAtOrBelow(NamesOf(parts), NamesOf(folderParts))

\* The calls that a step adds to the calls of the SCM.
NewCalls == SubSeq(calls', Len(calls) + 1, Len(calls'))

\* C29: The call to add lists every added folder before the added entries
\* in it, and when it is made the added folders exist in the work copy;
\* and when a call to move is made, the folder of its target exists.
C29_AddedFoldersPrecedeTheirEntries ==
    [][\A n \in 1..Len(NewCalls) :
           /\ NewCalls[n].op = "add" =>
                  \A i \in 1..Len(NewCalls[n].paths) :
                      IsFolderPath(NewCalls[n].paths[i]) =>
                          /\ NamesOf(NewCalls[n].paths[i]) \in workTree'.folders
                          /\ \A j \in 1..Len(NewCalls[n].paths) :
                                 IsInsideFolder(NewCalls[n].paths[j], NewCalls[n].paths[i])
                                     => i < j
           /\ NewCalls[n].op = "move" => IsFolder(workTree, NewCalls[n].target)]_vars

\* The folders of the scanned tree whose path matches an exclude pattern.
ExcludedFolders ==
    {names \in scanTree.folders :
        Len(excludePatterns) > 0 /\ MatchesAnyPatternIn(names, excludePatterns)}

\* C24: find() yields neither a folder whose path matches an exclude
\* pattern nor any path below it, whatever the include patterns match.
C24_NothingYieldedBelowExcludedFolder ==
    pc = "found" =>
        \A i \in 1..Len(found) :
            \A names \in ExcludedFolders : ~IsAtOrBelow(NamesOf(found[i]), names)

\* An excluded folder holds a file that the include patterns match and no
\* exclude pattern matches, and find() has yielded other paths.
C24_Witness ==
    /\ pc = "found"
    /\ found # <<>>
    /\ \E names \in ExcludedFolders :
           \E file \in scanTree.files :
               /\ IsAtOrBelow(file, names)
               /\ SetMatchesParts(includePatterns, excludePatterns, file)

\* The puncher has the configuration that _clear() sets.
HasDefaultConfiguration(fields) ==
    /\ fields.moveMode = MoveName
    /\ fields.nameTransformation = Preserve
    /\ fields.textOptions = NoTextOptions

\* moveMode, nameTransformation and textOptions of a puncher
ConfigurationOf(fields) ==
    <<fields.moveMode, fields.nameTransformation, fields.textOptions>>

\* C30: When punch() has ended, with or without error, moveMode is 'name',
\* nameTransformation is the identity and textOptions is None whatever they
\* were set to before; a punch() called again on the same puncher starts
\* with this configuration and keeps it until it ends.
C30_ConfigurationIsResetOnExit ==
    [][/\ PunchEnded' => HasDefaultConfiguration(puncher')
       /\ PunchAgain => HasDefaultConfiguration(puncher')
       /\ (pc # "idle" /\ pc' # "idle") =>
              \/ ConfigurationOf(puncher') = ConfigurationOf(puncher)
              \/ pc' \in {"punched", "failed"}]_vars

\* A puncher that was set to lower case names and to text
\* options punches a second time without being configured again: it
\* preserves the case of names and schedules a move.
C30_Witness ==
    /\ punches = 2
    /\ pc = "transfer"
    /\ options.nameTransformation = Lower
    /\ options.textOptions # NoTextOptions
    /\ puncher.nameTransformation = Preserve
    /\ puncher.moveMode = MoveName
    /\ puncher.textOptions = NoTextOptions
    /\ puncher.schedule.move # <<>>

\* The strings of a sequence of strings, one after the other.
RECURSIVE Concat(_)
Concat(strings) ==
    IF strings = <<>> THEN <<>> ELSE Head(strings) \o Concat(Tail(strings))

\* The line without the characters of chars that it ends with.
WithoutTrailing(line, chars) ==
    LET n == CHOOSE n \in 0..Len(line) :
                 /\ n = 0 \/ line[n] \notin chars
                 /\ \A k \in (n + 1)..Len(line) : line[k] \in chars
    IN SubSeq(line, 1, n)

\* The line with every tab replaced by the spaces up to the next column
\* that is a multiple of tabsize, columns being counted from the start of
\* the line or from the last carriage return.
WithTabsExpanded(line, tabsize) ==
    LET column[k \in 0..Len(line)] ==
            IF k = 0 \/ line[k] \in {"\n", "\r"} THEN 0
            ELSE IF line[k] = "\t"
                THEN column[k - 1] + tabsize - (column[k - 1] % tabsize)
            ELSE column[k - 1] + 1
        end[k \in 0..Len(line)] ==
            IF k = 0 THEN 0
            ELSE IF line[k] = "\t"
                THEN end[k - 1] + tabsize - (column[k - 1] % tabsize)
            ELSE end[k - 1] + 1
    IN [m \in 1..end[Len(line)] |->
           LET k == CHOOSE k \in 1..Len(line) : end[k - 1] < m /\ m <= end[k]
           IN IF line[k] = "\t" THEN " " ELSE line[k]]

\* What the claim says is written for a line of the source file.
LineAsClaimed(opts, line) ==
    LET newLines == {"\n", "\r"}
        stripped == WithoutTrailing(line, IF "\t" \in opts.trailingCharactersToStrip
                                          THEN newLines \cup {"\t", " "}
                                          ELSE newLines)
    IN (IF opts.tabSize > 0 THEN WithTabsExpanded(stripped, opts.tabSize) ELSE stripped)
       \o opts.newLine

\* s ends with the string t
EndsWith(s, t) ==
    Len(s) >= Len(t) /\ SubSeq(s, Len(s) - Len(t) + 1, Len(s)) = t

\* C22: While and after a text file is copied, the target holds, for every
\* line read from the source, the line without its trailing new line
\* characters (and without trailing tabs and spaces when stripTrailing is
\* set), with tabs expanded to tabSize columns when tabSize > 0, followed by
\* the configured new line; the lines are the pieces of the source that end
\* with a line feed, and what follows the last line feed. An empty source
\* gives an empty target, and a last line without terminator gets one.
C22_TextCopyConvertsEveryLine ==
    (pc \in {"lines", "copied"} /\ TransfersAsText) =>
        LET lines == LinesOf(sourceFile.content)
            n == IF pc = "copied" THEN Len(lines) ELSE linesRead
        IN /\ Concat(lines) = sourceFile.content
           /\ \A i \in 1..Len(lines) :
                  /\ lines[i] # <<>>
                  /\ \A k \in 1..(Len(lines[i]) - 1) : lines[i][k] # "\n"
                  /\ i < Len(lines) => lines[i][Len(lines[i])] = "\n"
           /\ n <= Len(lines)
           /\ targetFile.content =
                  Concat([i \in 1..n |-> LineAsClaimed(textOptions, lines[i])])
           /\ (pc = "copied" /\ sourceFile.content = <<>>) => targetFile.content = <<>>
           /\ (pc = "copied" /\ sourceFile.content # <<>>) =>
                  EndsWith(targetFile.content, textOptions.newLine)

\* A text file of one line without terminator, with a tab after the first
\* character and a trailing space, was copied with tabs expanded to columns
\* of TabSize, trailing white space stripped and the new line of DOS.
C22_Witness ==
    /\ pc = "copied"
    /\ TransfersAsText
    /\ sourceFile.content = <<"a", "\t", "a", " ">>
    /\ textOptions.tabSize = TabSize
    /\ textOptions.newLine = Dos
    /\ " " \in textOptions.trailingCharactersToStrip
    /\ targetFile.content = <<"a", " ", "a", "\r", "\n">>

\* C25 as amended: When a file has been transferred, as a binary file or
\* through the text conversion, the target has the time of modification and
\* the mode of the source; the content of a binary file is that of the
\* source.
C25_TransferCopiesStat ==
    pc = "copied" =>
        /\ targetFile.stat = sourceFile.stat
        /\ ~TransfersAsText => targetFile.content = sourceFile.content

\* C25: A binary file is copied with the time of modification and the mode
\* of the source, but a file copied through the text conversion does not
\* get the time of modification of the source.
C25_TextCopyDropsTimestamps ==
    pc = "copied" =>
        /\ ~TransfersAsText =>
               /\ targetFile.stat = sourceFile.stat
               /\ targetFile.content = sourceFile.content
        /\ TransfersAsText => targetFile.stat.mtime # sourceFile.stat.mtime

\* A text file of more than one line was converted, to a content that is
\* not that of the source, and the target has the time and the mode of the
\* source, which is not the time at which it was written.
C25_Witness ==
    /\ pc = "copied"
    /\ TransfersAsText
    /\ targetFile.content # sourceFile.content
    /\ targetFile.stat = sourceFile.stat
    /\ sourceFile.stat.mtime < Now
    /\ sourceFile.stat.mode # "rw-rw-rw-"
    /\ linesRead > 1

\* C23: When bundledPathsToRun() has ended without EnvironmentError, every
\* bundle it has yielded is non-empty and the bundles, one after the other
\* in the order they were yielded, are the list of paths it was called
\* with; for an empty list it has yielded nothing.
C23_BundlesAreThePathsInOrder ==
    pc = "bundled" =>
        /\ \A i \in 1..Len(bundling.yielded) : bundling.yielded[i] # <<>>
        /\ Concat(bundling.yielded) = pathsToBundle
        /\ pathsToBundle = <<>> => bundling.yielded = <<>>

\* Three paths that differ were yielded as a bundle of two paths and a
\* bundle of one.
C23_Witness ==
    /\ pc = "bundled"
    /\ Len(pathsToBundle) = 3
    /\ Cardinality({pathsToBundle[i] : i \in 1..3}) = 3
    /\ Len(bundling.yielded) = 2
    /\ Len(bundling.yielded[1]) = 2
    /\ bundling.yielded[1] \o bundling.yielded[2] = pathsToBundle

\* The escaped length that bundledPathsToRun() allows the paths of a bundle.
PathsLengthLimit == MaxPathsLength(baseCommandAndOptions, maxCommandLenth)

\* C26: The escaped lengths of the paths of every yielded bundle sum up to
\* at most maxCommandLength minus the escaped length of the base command,
\* and when a path of the list alone is longer than that, at whatever
\* position, EnvironmentError is raised and no bundle with it is yielded.
C26_BundlesFitTheCommandLength ==
    /\ \A i \in 1..Len(bundling.yielded) :
           SumOfEscapedLengths(bundling.yielded[i]) <= PathsLengthLimit
    /\ (\E i \in 1..Len(pathsToBundle) : EscapedLength(pathsToBundle[i]) > PathsLengthLimit)
           => pc # "bundled"

\* main() has called the punch or an action after it.
PunchedOrActedAfter(made) ==
    \E i \in 1..Len(made) : made[i].action \in {"scunch", ActionCommit, ActionPurge}

\* C21: With 'check' as the only action before the punch, the default, when
\* svn status reports an entry whose status or whose status of the
\* properties is other than normal, ignored or none, main() ends in
\* check(): it returns ScmPendingChangesError and an exit code other than
\* 0, and it has called neither the punch nor commit nor purge, nor does it
\* call anything once it has ended.
C21_PendingChangesEndMainBeforePunch ==
    [][/\ ( /\ actionsToPerformBeforePunching = <<ActionCheck>>
            /\ performed' = Append(performed, Called(ActionCheck, 0))
            /\ \E i \in 1..Len(statusItems) :
                   \/ statusItems[i].status \notin {Normal, Ignored, NoStatus}
                   \/ statusItems[i].propertiesStatus \notin {Normal, Ignored, NoStatus} )
          => /\ pc' = "exited"
             /\ exitError' = "ScmPendingChangesError"
             /\ exitCodeOfMain' # 0
             /\ ~PunchedOrActedAfter(performed')
       /\ pc = "exited" => performed' = performed]_vars

\* main() was called with the default of --before and with commit and
\* purge to follow the punch, for a work copy with an entry whose
\* properties are modified: it has ended in check() with
\* ScmPendingChangesError and the exit code 1.
C21_Witness ==
    /\ pc = "exited"
    /\ actionsToPerformBeforePunching = <<ActionCheck>>
    /\ actionsToPerformAfterPunching = <<ActionCommit, ActionPurge>>
    /\ statusItems = <<StatusEntry(Normal, NoStatus), StatusEntry(Normal, Modified)>>
    /\ performed = <<Called("createScmWork", 0), Called(ActionCheck, 0)>>
    /\ exitError = "ScmPendingChangesError"
    /\ exitCodeOfMain = 1

=============================================================================
